---- MODULE Spec2Model ----
(***************************************************************************)
(* Session-credential harvesting engine of lsa-cookie (src/server.js).     *)
(*                                                                         *)
(* src/server.js holds successive versions of the server.  Two of them are *)
(* modelled here, and a process runs exactly one of them (variable         *)
(* `variant`, fixed by Init):                                              *)
(*   "multi"      lines   1-352: the multi-profile harvester               *)
(*                (fetchFreshAuth / tryProfileOnce, puppeteer);            *)
(*   "coalescing" lines 354-668: the single-profile harvester guarded by   *)
(*                `inflight` (getCookiesAndHeader / getCookiesAndHeaderRaw,*)
(*                playwright) with the seed file.                          *)
(*                                                                         *)
(* Node runs handlers on one thread: a handler runs without interruption   *)
(* from one await on I/O to the next, so each action below is one such     *)
(* stretch of code.  Promise reactions (.then/.finally, the continuation   *)
(* of an await on an already settled promise) run in the same microtask    *)
(* drain as the step that settled the promise and belong to its action.    *)
(*                                                                         *)
(* Strings that the code builds or parses are sequences of symbols: the    *)
(* delimiters "=", ";" and " " are symbols of their own, every other       *)
(* maximal run of characters (a cookie name, a value) is one symbol.       *)
(* The empty string is the empty sequence.                                 *)
(***************************************************************************)
EXTENDS Integers, Sequences, FiniteSets, TLC

VARIABLES
    variant,    \* which version of server.js this process runs
    now,        \* Date.now(), in clock ticks
    cache,      \* `let cache` (server.js:36 / server.js:395)
    inflight,   \* `let inflight` (server.js:396): 0 is null, k the promise of run k
    raws,       \* the getCookiesAndHeaderRaw runs, by run number
    callers,    \* GET /cookie requests of the coalescing version
    seed,       \* contents of SEED_FILE ("" when absent)
    seedOp,    \* POST /seed and DELETE /seed requests
    ws,         \* the temporary user-data directories that exist on disk
    sessions,   \* the browser sessions that are open
    mp,         \* GET /cookie requests of the multi-profile version
    faults,     \* how many operations of the environment have failed so far
    probe       \* a function of server.js called on its own: arguments and result

vars == <<variant, now, cache, inflight, raws, callers, seed, seedOp,
          ws, sessions, mp, faults, probe>>

-----------------------------------------------------------------------------
(* Bounds of the model *)

NReq == 2
MaxClock == 1
SuffixCount == 1
MaxFaults == 1

(* the longest cookie list a function is called with on its own *)
MaxLen == 2

(* the longest cookie list of two successive calls of buildSAPISIDHASH *)
MaxPairLen == 2

(* the most samples of the cookie jar one call of waitForSID takes *)
MaxSamples == 4

(* COOKIE_TTL_MS in clock ticks: one tick is the configured window *)
COOKIE_TTL_MS == 1

Reqs == 1..NReq
Runs == 1..NReq

-----------------------------------------------------------------------------
(* Cookies and strings *)

EmptyStr == << >>

Ck(n, v, d) == [name |-> <<n>>, value |-> v, domain |-> d]

GoogleDomains == {".google.com", "ads.google.com"}

IdentityNames == {<<"SID">>, <<"__Secure-1PSID">>, <<"__Secure-3PSID">>}

SecretNames == {<<"SAPISID">>, <<"__Secure-1PAPISID">>, <<"__Secure-3PAPISID">>}

hasAuthCookiesHead(list) ==
    Len(list) > 0 /\ list[1].name \in IdentityNames

hasAuthCookies(list) ==
    \E i \in 1..Len(list) : list[i].name \in IdentityNames

RECURSIVE JoinPairs(_)
JoinPairs(cks) ==
    IF Len(cks) = 0 THEN EmptyStr
    ELSE IF Len(cks) = 1 THEN cks[1].name \o <<"=">> \o cks[1].value
    ELSE cks[1].name \o <<"=">> \o cks[1].value \o <<";", " ">> \o JoinPairs(Tail(cks))

IsGoogleCookie(c) == c.domain \in GoogleDomains

cookieHeaderFromAll(cookies) == JoinPairs(cookies)

cookieHeaderFrom(cookies) == JoinPairs(SelectSeq(cookies, IsGoogleCookie))

(* cookies.find(c => c.name === n)?.value; undefined is the empty string,   *)
(* which `||` treats like a missing cookie                                  *)
RECURSIVE GetValue(_, _)
GetValue(cookies, n) ==
    IF Len(cookies) = 0 THEN EmptyStr
    ELSE IF cookies[1].name = n THEN cookies[1].value
    ELSE GetValue(Tail(cookies), n)

OrElseSecond(a, b) == IF Len(b) > 0 THEN b ELSE a

OrElse(a, b) == IF Len(a) > 0 THEN a ELSE b

(* sha1(...).digest('hex'): an injective function of the message *)
Sha1Hex(ts, secret, origin) == <<"sha1", ts, secret, origin>>

buildSAPISIDHASHOverJar(cookies, origin, t) ==
    IF \A i \in 1..Len(cookies) : cookies[i].name \notin SecretNames \/ Len(cookies[i].value) = 0
    THEN EmptyStr
    ELSE <<"SAPISIDHASH", t, Sha1Hex(t, cookies, origin)>>

buildSAPISIDHASH(cookies, origin, t) ==
    LET sapsid == OrElse(GetValue(cookies, <<"SAPISID">>),
                    OrElse(GetValue(cookies, <<"__Secure-3PAPISID">>),
                           GetValue(cookies, <<"__Secure-1PAPISID">>)))
    IN  IF Len(sapsid) = 0 THEN EmptyStr
        ELSE <<"SAPISIDHASH", t, Sha1Hex(t, sapsid, origin)>>

Origin == "https://ads.google.com"

(* str.split(/;\s*/): the segments between ";", the blanks after a ";" dropped *)
RECURSIVE DropBlanks(_)
DropBlanks(str) ==
    IF Len(str) > 0 /\ str[1] = " " THEN DropBlanks(Tail(str)) ELSE str

RECURSIVE SplitSegments(_, _)
SplitSegments(str, cur) ==
    IF Len(str) = 0 THEN <<cur>>
    ELSE IF str[1] = ";" THEN <<cur>> \o SplitSegments(DropBlanks(Tail(str)), EmptyStr)
    ELSE SplitSegments(Tail(str), Append(cur, str[1]))

RECURSIVE IndexOfLastEq(_, _)
IndexOfLastEq(seg, i) ==
    IF i > Len(seg) THEN 0
    ELSE LET later == IndexOfLastEq(seg, i + 1)
         IN  IF later # 0 THEN later
             ELSE IF seg[i] = "=" THEN i ELSE 0

RECURSIVE IndexOfEq(_, _)
IndexOfEq(seg, i) ==
    IF i > Len(seg) THEN 0
    ELSE IF seg[i] = "=" THEN i
    ELSE IndexOfEq(seg, i + 1)

RECURSIVE TrimRight(_)
TrimRight(str) ==
    IF Len(str) > 0 /\ str[Len(str)] = " " THEN TrimRight(SubSeq(str, 1, Len(str) - 1))
    ELSE str

Trim(str) == TrimRight(DropBlanks(str))

RECURSIVE ParseSegments(_)
ParseSegments(segs) ==
    IF Len(segs) = 0 THEN << >>
    ELSE LET kv == segs[1]
             i == IndexOfEq(kv, 1)
             name == Trim(SubSeq(kv, 1, i - 1))
             value == Trim(SubSeq(kv, i + 1, Len(kv)))
         IN  IF i = 0 \/ Len(name) = 0 THEN ParseSegments(Tail(segs))
             ELSE <<[name |-> name, value |-> value, domain |-> ".google.com"]>>
                  \o ParseSegments(Tail(segs))

parseCookieHeaderNothing(str) == << >>

parseCookieHeader(str) == ParseSegments(SplitSegments(str, EmptyStr))

(* BrowserContext.addCookies: a cookie of the same name and domain is       *)
(* replaced, any other is added                                            *)
RECURSIVE addCookies(_, _)
addCookies(jar, toSet) ==
    IF Len(toSet) = 0 THEN jar
    ELSE LET c == toSet[1]
             Other(x) == ~(x.name = c.name /\ x.domain = c.domain)
         IN  addCookies(Append(SelectSeq(jar, Other), c), Tail(toSet))

-----------------------------------------------------------------------------
(* The navigation wait policy.  A configured string is a word in lower     *)
(* case and whether the configuration writes it with capital letters; the  *)
(* word "" is a variable that is unset or empty                            *)

Str(w) == [word |-> w, caps |-> FALSE]

toLowerCase(s) == [s EXCEPT !.caps = FALSE]

(* server.js:24-27, the multi-profile version *)
WaitUntilMulti(env) ==
    LET raw == toLowerCase(IF env.word = "" THEN Str("domcontentloaded") ELSE env)
    IN  IF raw \in {Str("load"), Str("domcontentloaded"), Str("networkidle0"),
                    Str("networkidle2")}
        THEN raw ELSE Str("domcontentloaded")

(* server.js:383-386, the coalescing version *)
WaitUntilCoalescing(env) ==
    LET WAIT_UNTIL_RAW == toLowerCase(IF env.word = "" THEN Str("networkidle") ELSE env)
    IN  IF WAIT_UNTIL_RAW \in {Str("load"), Str("domcontentloaded"), Str("networkidle")}
        THEN WAIT_UNTIL_RAW ELSE Str("networkidle")

(* server.js:681, the seed-only version *)
WaitUntilSeedOnly(env) == IF env.word = "" THEN Str("domcontentloaded") ELSE env

WAIT_UNTIL(version, env) ==
    CASE version = "multi" -> WaitUntilMulti(env)
      [] version = "coalescing" -> WaitUntilCoalescing(env)
      [] version = "seed-only" -> WaitUntilSeedOnly(env)

-----------------------------------------------------------------------------
(* Workspace removal *)

(* fsp.rm(p, {recursive, force}) on a path that is absent, a directory     *)
(* only partly filled, or a full workspace; io names the error of the file *)
(* system when the removal of something that exists fails, "" for none     *)
rm(dir, recursive, force, io) ==
    IF dir = "absent"
    THEN [dir |-> dir, threw |-> IF force THEN "" ELSE "ENOENT"]
    ELSE IF ~recursive THEN [dir |-> dir, threw |-> "ERR_FS_EISDIR"]
    ELSE IF io # "" THEN [dir |-> dir, threw |-> io]
    ELSE [dir |-> "absent", threw |-> ""]

(* server.js:125 *)
rmrf(dir, io) == rm(dir, TRUE, TRUE, io)

cleanupRethrowing(dir, io) == rmrf(dir, io)

(* server.js:157, and server.js:518-521 with .catch: what rm throws is     *)
(* swallowed                                                               *)
cleanup(dir, io) == [rmrf(dir, io) EXCEPT !.threw = ""]

(* cleanup invoked once for each element of ios, one after the other *)
RECURSIVE Cleanups(_, _)
Cleanups(dir, ios) ==
    IF Len(ios) = 0 THEN << >>
    ELSE LET first == cleanup(dir, ios[1])
         IN  <<first>> \o Cleanups(first.dir, Tail(ios))

-----------------------------------------------------------------------------
(* The Token Poller *)

(* server.js:103: `await sleep(500)` between two samples *)
SleepMs == 500

(* the result of a call of waitForSID: the sample returned, how many       *)
(* samples were taken and how many sleeps were slept; threw when a sample  *)
(* (getAllCookies, server.js:93-97) rejected, which waitForSID passes on   *)
Polled(ck, i) == [cookies |-> ck, samples |-> i, sleeps |-> i - 1, threw |-> FALSE]

PollThrew(i) == [cookies |-> << >>, samples |-> i, sleeps |-> i - 1, threw |-> TRUE]

(* server.js:98-106 from the i-th sample on, `elapsed` ms after `start`:   *)
(* stream[i] is what the i-th getAllCookies gives and how long it takes    *)
RECURSIVE PollLoop(_, _, _, _)
PollLoop(stream, i, elapsed, timeoutMs) ==
    IF stream[i].fails THEN PollThrew(i)
    ELSE IF elapsed < timeoutMs
    THEN IF hasAuthCookies(stream[i].cookies)
         THEN Polled(stream[i].cookies, i)
         ELSE PollLoop(stream, i + 1, elapsed + stream[i].took + SleepMs, timeoutMs)
    ELSE Polled(stream[i].cookies, i)

(* a poller that takes its best-effort sample at once *)
waitForSIDOnce(stream, timeoutMs) == PollLoop(stream, 1, 0, 0)

waitForSID(stream, timeoutMs) == PollLoop(stream, 1, 0, timeoutMs)

-----------------------------------------------------------------------------
(* The environment: the profile store and the cookies a session holds *)

GeneratedNames == <<"Profile 1", "Profile 2", "Profile 3", "Profile 4",
                    "Profile 5", "Profile 6", "Profile 7", "Profile 8">>

ExtraProfile == "Work"

AllProfiles == {"Default", ExtraProfile} \cup {GeneratedNames[i] : i \in 1..SuffixCount}

NoFlags == [hasCookies |-> FALSE, hasCookiesWal |-> FALSE,
            hasNetCookies |-> FALSE, hasNetCookiesWal |-> FALSE]

DbFlags == [hasCookies |-> TRUE, hasCookiesWal |-> TRUE,
            hasNetCookies |-> FALSE, hasNetCookiesWal |-> FALSE]

JarSid == <<Ck("SID", <<"1">>, ".google.com")>>

(* the profile store of the machine: the preferred profile is Default,    *)
(* which has no cookie store; the first generated profile holds SID; the   *)
(* other profiles are empty                                                *)
ProfileStore ==
    [preferred |-> "Default",
     flags |-> [p \in AllProfiles |-> IF p = GeneratedNames[1] THEN DbFlags ELSE NoFlags],
     jar |-> [p \in AllProfiles |-> IF p = GeneratedNames[1] THEN JarSid ELSE << >>]]

(* the cookies a navigation to the target may add to the jar *)
SiteCookies == {<< >>, <<Ck("SID", <<"2">>, ".google.com")>>}

(* the seed and clear parameters of GET /cookie that the model issues *)
QueryOptions == {[useSeed |-> TRUE, clear |-> FALSE], [useSeed |-> FALSE, clear |-> TRUE]}

(* bodies of POST /seed; the empty string stands for a missing, empty or   *)
(* non-string cookieHeader                                                  *)
SeedBodies == {EmptyStr, <<"SID", "=", "9", ";", " ", "x">>}

-----------------------------------------------------------------------------
(* State after construction *)

NoResp == [status |-> 0, header |-> EmptyStr, cookies |-> << >>, fromCache |-> FALSE,
           authHeader |-> EmptyStr, error |-> ""]

IdleCaller == [pc |-> "idle", run |-> 0, started |-> FALSE, resp |-> NoResp]

(* slot0: the cache slot as it was when the run started, kept while the    *)
(* run is pending                                                          *)
UnusedRaw == [pc |-> "unused", useSeed |-> FALSE, clear |-> FALSE, jar |-> << >>,
              cookies |-> << >>, threw |-> FALSE,
              slot0 |-> [header |-> EmptyStr, cookies |-> << >>, expires |-> 0]]

(* unread: the slot was invalidated and GET /cookie was not called since *)
IdleSeedOp == [pc |-> "idle", kind |-> "", body |-> EmptyStr, status |-> 0,
               unread |-> FALSE]

NoAttempt == [ok |-> FALSE, cookies |-> << >>, cookieHeader |-> EmptyStr,
              authHeader |-> EmptyStr, foundAuth |-> << >>, error |-> "",
              pickedProfile |-> "", source |-> [hasCookies |-> FALSE,
              hasCookiesWal |-> FALSE, hasNetCookies |-> FALSE, hasNetCookiesWal |-> FALSE]]

MpNoResp == [status |-> 0, cookieHeader |-> EmptyStr, authHeader |-> EmptyStr,
             foundAuth |-> << >>, pickedProfile |-> "", tried |-> << >>,
             fromCache |-> FALSE, error |-> ""]

IdleMp == [pc |-> "idle", profile |-> "", cands |-> << >>, i |-> 0,
           tried |-> << >>, att |-> NoAttempt, resp |-> MpNoResp]

(* no function has been called on its own *)
NoProbe == [fn |-> "", args |-> << >>,
            cookies |-> << >>, origin |-> "", t |-> 0, out |-> << >>,
            again |-> FALSE, other |-> << >>, t2 |-> 0, out2 |-> << >>,
            forced |-> "", preferred |-> ""]

(* server.js:395 and server.js:36 *)
EmptyCacheCo == [header |-> EmptyStr, cookies |-> << >>, expires |-> 0]

EmptyCacheMp == [cookieHeader |-> EmptyStr, cookies |-> << >>, authHeader |-> EmptyStr,
                 expires |-> 0]

(* what an earlier harvest, completed at time 0 by a request that is over, *)
(* left in the slot (server.js:587)                                        *)
EarlierCacheCo == [header |-> cookieHeaderFrom(JarSid), cookies |-> JarSid,
                   expires |-> COOKIE_TTL_MS]

InitCommon ==
    /\ now = 0
    /\ inflight = 0
    /\ seed = EmptyStr
    /\ seedOp = IdleSeedOp
    /\ ws = {}
    /\ sessions = {}
    /\ faults = 0
    /\ probe = NoProbe

(* the coalescing version, with no request in progress: the slot is as     *)
(* constructed, or as an earlier harvest left it                           *)
InitCoalescing ==
    /\ variant = "coalescing"
    /\ cache \in {EmptyCacheCo, EarlierCacheCo}
    /\ raws = [k \in Runs |-> UnusedRaw]
    /\ callers = [c \in Reqs |-> IdleCaller]
    /\ mp = << >>
    /\ InitCommon

(* the multi-profile version after construction *)
InitMulti ==
    /\ variant = "multi"
    /\ cache = EmptyCacheMp
    /\ raws = << >>
    /\ callers = << >>
    /\ mp = [r \in Reqs |-> IdleMp]
    /\ InitCommon

Init == InitCoalescing \/ InitMulti

(* an operation of the environment (file system, browser) succeeds, or      *)
(* fails while the model's budget of failures lasts                         *)
Outcome(ok) ==
    /\ ok \/ faults < MaxFaults
    /\ faults' = IF ok THEN faults ELSE faults + 1

(* the clock advances between any two steps *)
Tick ==
    /\ now < MaxClock
    /\ now' = now + 1
    /\ UNCHANGED <<probe, variant, cache, inflight, raws, callers, seed, seedOp,
                   ws, sessions, mp, faults>>

-----------------------------------------------------------------------------
(* The coalescing version: getCookiesAndHeader and GET /cookie *)

CacheFreshAnyHeader(c, force, t) == ~force /\ t < c.expires

CacheFreshAtExpiry(c, force, t) == ~force /\ Len(c.header) > 0 /\ t <= c.expires

(* server.js:580 *)
CacheFresh(c, force, t) == ~force /\ Len(c.header) > 0 /\ t < c.expires

MustLaunchAlways(infl, force) == TRUE

MustLaunchWhenForced(infl, force) == infl = 0 \/ force

(* server.js:584: a promise in `inflight` is returned, to a forced call too *)
MustLaunch(infl, force) == infl = 0

CacheEntryWithoutTtl(header, cookies, t) ==
    [header |-> header, cookies |-> cookies, expires |-> t]

(* server.js:587 *)
CacheEntry(header, cookies, t) ==
    [header |-> header, cookies |-> cookies, expires |-> t + COOKIE_TTL_MS]

(* server.js:610-629: the body of the 200 response *)
CoResponse(header, cookies, fromCache, t) ==
    [status |-> 200, header |-> header, cookies |-> cookies, fromCache |-> fromCache,
     authHeader |-> buildSAPISIDHASH(cookies, Origin, t), error |-> ""]

ErrResponseEscaping(e) == NoResp

(* server.js:630-632 *)
ErrResponse(e) == [NoResp EXCEPT !.status = 500, !.error = e]

FreeRun == CHOOSE k \in Runs : raws[k].pc = "unused" /\ \A j \in Runs : j < k => raws[j].pc # "unused"

AttachOverriding(c, useSeed, clear) ==
    /\ callers' = [callers EXCEPT ![c].pc = "waiting", ![c].run = inflight]
    /\ raws' = [raws EXCEPT ![inflight].useSeed = useSeed, ![inflight].clear = clear]
    /\ UNCHANGED inflight

(* server.js:584-591: with a promise in `inflight` the call starts nothing *)
(* and returns that promise; targetUrl and opts of this call are not used  *)
Attach(c, useSeed, clear) ==
    /\ callers' = [callers EXCEPT ![c].pc = "waiting", ![c].run = inflight]
    /\ UNCHANGED <<inflight, raws>>

(* GET /cookie up to its await: the handler parses the query and calls      *)
(* getCookiesAndHeader, which answers from the cache, or starts a run and   *)
(* stores its promise in `inflight`, or returns the promise already there   *)
GetCookie(c, force, useSeed, clear) ==
    /\ variant = "coalescing"
    /\ callers[c].pc = "idle"
    /\ \A d \in Reqs : d < c => callers[d].pc # "idle"
    /\ LET me == callers[c]
       IN  IF CacheFresh(cache, force, now)
           THEN /\ callers' = [callers EXCEPT ![c] =
                       [me EXCEPT !.pc = "done",
                                  !.resp = CoResponse(cache.header, cache.cookies, TRUE, now)]]
                /\ UNCHANGED <<inflight, raws>>
           ELSE IF MustLaunch(inflight, force)
           THEN /\ \E k \in Runs : raws[k].pc = "unused"
                /\ raws' = [raws EXCEPT ![FreeRun] =
                       [UnusedRaw EXCEPT !.pc = "clone", !.useSeed = useSeed,
                                         !.clear = clear, !.slot0 = cache]]
                /\ inflight' = FreeRun
                /\ callers' = [callers EXCEPT ![c] =
                       [me EXCEPT !.pc = "waiting", !.run = FreeRun, !.started = TRUE]]
           ELSE Attach(c, useSeed, clear)
    /\ seedOp' = [seedOp EXCEPT !.unread = FALSE]
    /\ UNCHANGED <<probe, variant, now, cache, seed, ws, sessions, mp, faults>>

SettleRejectedCachingFailure(k, e) ==
    /\ inflight' = 0
    /\ callers' = [c \in Reqs |->
          IF callers[c].pc = "waiting" /\ callers[c].run = k
          THEN [callers[c] EXCEPT !.pc = "done", !.resp = ErrResponse(e)]
          ELSE callers[c]]
    /\ cache' = CacheEntry(EmptyStr, << >>, now)

SettleRejectedKeepingMarker(k, e) ==
    /\ inflight' = inflight
    /\ callers' = [c \in Reqs |->
          IF callers[c].pc = "waiting" /\ callers[c].run = k
          THEN [callers[c] EXCEPT !.pc = "done", !.resp = ErrResponse(e)]
          ELSE callers[c]]
    /\ UNCHANGED cache

(* the promise of run k is rejected: .finally resets inflight              *)
(* (server.js:590) and every handler awaiting it answers 500               *)
SettleRejected(k, e) ==
    /\ inflight' = 0
    /\ callers' = [c \in Reqs |->
          IF callers[c].pc = "waiting" /\ callers[c].run = k
          THEN [callers[c] EXCEPT !.pc = "done", !.resp = ErrResponse(e)]
          ELSE callers[c]]
    /\ UNCHANGED cache

(* the promise of run k is fulfilled: .then stores the cache entry          *)
(* (server.js:586-589), .finally resets inflight, the handlers answer       *)
SettleFulfilled(k, header, cookies) ==
    /\ cache' = CacheEntry(header, cookies, now)
    /\ inflight' = 0
    /\ callers' = [c \in Reqs |->
          IF callers[c].pc = "waiting" /\ callers[c].run = k
          THEN [callers[c] EXCEPT !.pc = "done",
                                  !.resp = CoResponse(header, cookies, FALSE, now)]
          ELSE callers[c]]

(* getCookiesAndHeaderRaw, server.js:529-532: cleanupProfileLocks, then     *)
(* cloneProfileToTemp; mkdtemp or mkdir can fail                            *)
RawClone(k, ok) ==
    /\ variant = "coalescing"
    /\ raws[k].pc = "clone"
    /\ IF ok
       THEN /\ ws' = ws \cup {<<"run", k>>}
            /\ raws' = [raws EXCEPT ![k].pc = "launch"]
            /\ UNCHANGED <<cache, inflight, callers>>
       ELSE /\ raws' = [raws EXCEPT ![k].pc = "settled", ![k].threw = TRUE,
                                    ![k].slot0 = UnusedRaw.slot0]
            /\ SettleRejected(k, "clone")
            /\ UNCHANGED ws
    /\ Outcome(ok)
    /\ UNCHANGED <<probe, variant, now, seed, seedOp, sessions, mp>>

(* server.js:534-546: launchPersistentContext, outside the try block *)
RawLaunch(k, ok) ==
    /\ variant = "coalescing"
    /\ raws[k].pc = "launch"
    /\ IF ok
       THEN /\ sessions' = sessions \cup {<<"run", k>>}
            /\ raws' = [raws EXCEPT ![k].pc = "prepare",
                                    ![k].jar = ProfileStore.jar[ProfileStore.preferred]]
            /\ UNCHANGED <<cache, inflight, callers>>
       ELSE /\ raws' = [raws EXCEPT ![k].pc = "settled", ![k].threw = TRUE,
                                    ![k].slot0 = UnusedRaw.slot0]
            /\ SettleRejected(k, "launch")
            /\ UNCHANGED sessions
    /\ Outcome(ok)
    /\ UNCHANGED <<probe, variant, now, seed, seedOp, ws, mp>>

(* the try block, server.js:549-570: clearCookies, the seed read from the  *)
(* file and added to the context, newPage, the navigation (whose failure   *)
(* is swallowed) and ctx.cookies(); newPage, addCookies and cookies() can  *)
(* throw, which skips the rest of the block; the options of the run are   *)
(* not read after it                                                       *)
RawBody(k, site, ok) ==
    /\ variant = "coalescing"
    /\ raws[k].pc = "prepare"
    /\ LET cleared == IF raws[k].clear THEN << >> ELSE raws[k].jar
           seeded == IF raws[k].useSeed
                     THEN addCookies(cleared, parseCookieHeader(seed))
                     ELSE cleared
           jar == addCookies(seeded, site)
       IN  raws' = [raws EXCEPT ![k].jar = IF ok THEN jar ELSE seeded,
                                ![k].cookies = IF ok THEN jar ELSE << >>,
                                ![k].pc = "close",
                                ![k].useSeed = FALSE, ![k].clear = FALSE,
                                ![k].threw = ~ok]
    /\ Outcome(ok)
    /\ UNCHANGED <<probe, variant, now, cache, inflight, callers, seed, seedOp,
                   ws, sessions, mp>>

(* server.js:572: ctx.close(), its failure swallowed *)
RawClose(k) ==
    /\ variant = "coalescing"
    /\ raws[k].pc = "close"
    /\ sessions' = sessions \ {<<"run", k>>}
    /\ raws' = [raws EXCEPT ![k].pc = "cleanup", ![k].jar = << >>]
    /\ UNCHANGED <<probe, variant, now, cache, inflight, callers, seed, seedOp, ws, mp, faults>>

(* server.js:573: clone.cleanup(), then the promise settles *)
RawCleanup(k) ==
    /\ variant = "coalescing"
    /\ raws[k].pc = "cleanup"
    /\ ws' = ws \ {<<"run", k>>}
    /\ raws' = [raws EXCEPT ![k].pc = "settled", ![k].slot0 = UnusedRaw.slot0]
    /\ IF raws[k].threw
       THEN SettleRejected(k, "session")
       ELSE SettleFulfilled(k, cookieHeaderFrom(raws[k].cookies), raws[k].cookies)
    /\ UNCHANGED <<probe, variant, now, seed, seedOp, sessions, mp, faults>>

-----------------------------------------------------------------------------
(* The seed: POST /seed and DELETE /seed (server.js:636-655).  The seed is *)
(* maintained by one client, which sends its requests one after another.   *)

(* server.js:643 and server.js:653 *)
InvalidatedCacheKeepingExpiry == [cache EXCEPT !.header = EmptyStr, !.cookies = << >>]

InvalidatedCache == [header |-> EmptyStr, cookies |-> << >>, expires |-> 0]

(* POST /seed up to `await writeSeed`: a missing, empty or non-string       *)
(* cookieHeader is answered 400                                             *)
SeedPost(body) ==
    /\ variant = "coalescing"
    /\ seedOp.pc = "idle"
    /\ seedOp' =
          IF Len(body) = 0
          THEN [seedOp EXCEPT !.status = 400]
          ELSE [seedOp EXCEPT !.pc = "writing", !.kind = "post", !.body = body,
                              !.status = 0]
    /\ UNCHANGED <<probe, variant, now, cache, inflight, raws, callers, seed,
                   ws, sessions, mp, faults>>

(* DELETE /seed up to `await writeSeed('')` *)
SeedDelete ==
    /\ variant = "coalescing"
    /\ seedOp.pc = "idle"
    /\ seedOp' = [seedOp EXCEPT !.pc = "writing", !.kind = "delete", !.status = 0]
    /\ UNCHANGED <<probe, variant, now, cache, inflight, raws, callers, seed,
                   ws, sessions, mp, faults>>

SeedFinishClearingFirst(ok) ==
    /\ variant = "coalescing"
    /\ seedOp.pc = "writing"
    /\ cache' = InvalidatedCache
    /\ IF ok
       THEN /\ seed' = seedOp.body
            /\ seedOp' = [IdleSeedOp EXCEPT !.status = 200, !.unread = TRUE]
       ELSE /\ UNCHANGED seed
            /\ seedOp' = [IdleSeedOp EXCEPT
                  !.status = IF seedOp.kind = "post" THEN 500 ELSE 0,
                  !.unread = seedOp.unread]
    /\ Outcome(ok)
    /\ UNCHANGED <<probe, variant, now, inflight, raws, callers, ws, sessions, mp>>

(* writeSeed (server.js:420-423) writes the file or fails; the handler     *)
(* then resumes: after a write it empties the cache slot and answers 200;  *)
(* after a failure POST answers 500 and DELETE, which has no catch,        *)
(* answers nothing (status 0)                                              *)
SeedFinish(ok) ==
    /\ variant = "coalescing"
    /\ seedOp.pc = "writing"
    /\ IF ok
       THEN /\ seed' = seedOp.body
            /\ cache' = InvalidatedCache
            /\ seedOp' = [IdleSeedOp EXCEPT !.status = 200, !.unread = TRUE]
       ELSE /\ UNCHANGED <<seed, cache>>
            /\ seedOp' = [IdleSeedOp EXCEPT
                  !.status = IF seedOp.kind = "post" THEN 500 ELSE 0,
                  !.unread = seedOp.unread]
    /\ Outcome(ok)
    /\ UNCHANGED <<probe, variant, now, inflight, raws, callers, ws, sessions, mp>>

-----------------------------------------------------------------------------
(* The multi-profile version: candidates, one attempt, the harvest *)

DedupNothing(names, seen) == names

RECURSIVE Dedup(_, _)
Dedup(names, seen) ==
    IF Len(names) = 0 THEN << >>
    ELSE IF names[1] \in seen THEN Dedup(Tail(names), seen)
    ELSE <<names[1]>> \o Dedup(Tail(names), seen \cup {names[1]})

(* server.js:64: the generated names are Profile 1 .. Profile 8 *)
ProfileCount == 8

(* server.js:62-67, with the first n generated names *)
CandidateNames(preferred, n) ==
    Dedup(<<preferred, "Default">> \o SubSeq(GeneratedNames, 1, n), {})

(* the candidate list of the machine the harvests run on, which has the    *)
(* first SuffixCount generated profiles                                    *)
listCandidateProfiles(preferred) == CandidateNames(preferred, SuffixCount)

(* server.js:259 *)
CandidatesOf(forcedProfile, preferred, n) ==
    IF forcedProfile # "" THEN <<forcedProfile>> ELSE CandidateNames(preferred, n)

Candidates(forcedProfile, preferred) ==
    CandidatesOf(forcedProfile, preferred, SuffixCount)

(* the constants server.js:16-34 declares, and the name server.js:203       *)
(* passes as the navigation timeout of the touch loop: a name that is not   *)
(* declared raises a ReferenceError when the call's arguments are evaluated *)
DeclaredNames == {"PORT", "PROFILE_DIR", "PROFILE_NAME_PREFERRED", "HEADLESS", "API_KEY",
                  "CHROME_PATH", "WAIT_UNTIL", "NAV_TIMEOUT_MS", "LSA_URL", "COOKIE_TTL_MS"}

TouchTimeoutName == "NAV_TIMEOUTMS"

Resolves(name) == name \in DeclaredNames

(* server.js:220-222 *)
RECURSIVE FoundAuth(_)
FoundAuth(cookies) ==
    IF Len(cookies) = 0 THEN << >>
    ELSE IF cookies[1].name \in IdentityNames \cup SecretNames
         THEN <<cookies[1].name>> \o FoundAuth(Tail(cookies))
         ELSE FoundAuth(Tail(cookies))

(* server.js:220-241: the value tryProfileOnce returns from the cookies     *)
(* of its last poll                                                         *)
AttemptReturned(profile, source, cookies, t) ==
    LET foundAuth == FoundAuth(cookies)
        authHeader == buildSAPISIDHASH(cookies, Origin, t)
    IN  [ok |-> Len(foundAuth) > 0 \/ Len(authHeader) > 0,
         cookies |-> cookies, cookieHeader |-> cookieHeaderFrom(cookies),
         authHeader |-> authHeader, foundAuth |-> foundAuth, error |-> "",
         pickedProfile |-> profile, source |-> source]

(* server.js:242-248: the value tryProfileOnce returns from its catch *)
AttemptCaught(profile, source, e) ==
    [NoAttempt EXCEPT !.error = e, !.pickedProfile = profile, !.source = source]

(* server.js:182-248: the try block of tryProfileOnce.  newPage can throw;  *)
(* the GAIA preflight is a soft navigation; the first pass of the touch     *)
(* loop evaluates the arguments of gotoSoft (server.js:203); the polls      *)
(* (server.js:205, 217) then sample the jar of the session                  *)
TryBody(profile, source, jar, site, newPageOk, t) ==
    IF ~newPageOk THEN AttemptCaught(profile, source, "newPage")
    ELSE IF ~Resolves(TouchTimeoutName)
         THEN AttemptCaught(profile, source, "NAV_TIMEOUTMS is not defined")
         ELSE AttemptReturned(profile, source, addCookies(jar, site), t)

(* server.js:50-57: gotoSoft turns what page.goto throws (named e, "" for  *)
(* a navigation that succeeds) into a value                                *)
gotoSoft(e) ==
    IF e = "" THEN [ok |-> TRUE, error |-> ""] ELSE [ok |-> FALSE, error |-> e]

(* server.js:192-198 *)
TouchUrls == <<"base", "leads", "accountpicker", "lead">>

(* the most navigations and polls one attempt can make, server.js:187-217 *)
MaxNavigations == Len(TouchUrls) + 3
MaxPolls == Len(TouchUrls) + 1

(* server.js:187: the GAIA preflight; the value of gotoSoft is dropped    *)
Preflight(thrown) ==
    [navigations |-> <<[url |-> "gaia", soft |-> gotoSoft(thrown[1])]>>,
     polls |-> << >>, cookies |-> << >>, error |-> ""]

(* server.js:200-207: the touch loop from its k-th URL on.  The arguments *)
(* of gotoSoft are evaluated first (server.js:203); the n-th navigation   *)
(* of the attempt throws thrown[n] inside page.goto, the p-th poll of the *)
(* attempt returns jars[p]                                                *)
RECURSIVE TouchLoop(_, _, _, _)
TouchLoop(w, k, thrown, jars) ==
    IF k > Len(TouchUrls) THEN w
    ELSE IF ~Resolves(TouchTimeoutName)
    THEN [w EXCEPT !.error = "NAV_TIMEOUTMS is not defined"]
    ELSE LET n == Len(w.navigations) + 1
             p == Len(w.polls) + 1
             polled == [w EXCEPT !.navigations = Append(@, [url |-> TouchUrls[k],
                                                            soft |-> gotoSoft(thrown[n])]),
                                 !.polls = Append(@, 5000),
                                 !.cookies = jars[p]]
         IN  IF hasAuthCookies(polled.cookies) THEN polled
             ELSE TouchLoop(polled, k + 1, thrown, jars)

(* server.js:210-218: the GAIA check, one more hit of the base URL and a  *)
(* last poll, when the touch loop ended without an identity cookie        *)
ReVerify(w, thrown, jars) ==
    IF w.error # "" \/ hasAuthCookies(w.cookies) THEN w
    ELSE LET n == Len(w.navigations) + 1
             p == Len(w.polls) + 1
         IN  [w EXCEPT !.navigations = @ \o <<[url |-> "gaiacheck", soft |-> gotoSoft(thrown[n])],
                                               [url |-> "base", soft |-> gotoSoft(thrown[n + 1])]>>,
                       !.polls = Append(@, 6000),
                       !.cookies = jars[p]]

(* server.js:183-248: the navigations and polls of one attempt after      *)
(* newPage, the value tryProfileOnce returns and the entry fetchFreshAuth *)
(* records for it (server.js:263)                                         *)
TryWalk(profile, thrown, jars, t) ==
    LET w == ReVerify(TouchLoop(Preflight(thrown), 1, thrown, jars), thrown, jars)
        source == ProfileStore.flags[profile]
        att == IF w.error # "" THEN AttemptCaught(profile, source, w.error)
               ELSE AttemptReturned(profile, source, w.cookies, t)
    IN  [navigations |-> w.navigations, polls |-> w.polls, attempt |-> att,
         entry |-> [profile |-> profile, ok |-> att.ok, error |-> att.error,
                    pickedProfile |-> att.pickedProfile, source |-> att.source]]

(* server.js:299 *)
MpCacheFresh(c, force, profile, t) ==
    ~force /\ Len(c.cookieHeader) > 0 /\ t < c.expires /\ profile = ""

(* server.js:312 *)
MpCacheEntry(cookieHeader, cookies, authHeader, t) ==
    [cookieHeader |-> cookieHeader, cookies |-> cookies, authHeader |-> authHeader,
     expires |-> t + COOKIE_TTL_MS]

MpErrResponse(e) == [MpNoResp EXCEPT !.status = 500, !.error = e]

WsOf(r) == <<"req", r, mp[r].i>>

(* GET /cookie (server.js:292-310) up to the first await of fetchFreshAuth: *)
(* answer from the cache, or start a harvest over the candidates            *)
MpGet(r, force, profile) ==
    /\ variant = "multi"
    /\ mp[r].pc = "idle"
    /\ IF r = 1 THEN TRUE ELSE mp[r - 1].pc # "idle"
    /\ LET me == [mp[r] EXCEPT !.profile = profile]
       IN  IF MpCacheFresh(cache, force, profile, now)
           THEN mp' = [mp EXCEPT ![r] =
                    [me EXCEPT !.pc = "done",
                               !.resp = [MpNoResp EXCEPT !.status = 200,
                                            !.cookieHeader = cache.cookieHeader,
                                            !.authHeader = cache.authHeader,
                                            !.fromCache = TRUE]]]
           ELSE mp' = [mp EXCEPT ![r] =
                    [me EXCEPT !.pc = "clone", !.i = 1,
                               !.cands = Candidates(profile, ProfileStore.preferred)]]
    /\ UNCHANGED <<probe, variant, now, cache, inflight, raws, callers, seed, seedOp,
                   ws, sessions, faults>>

MpCloneRequiringStore(r, ok) ==
    /\ variant = "multi"
    /\ mp[r].pc = "clone"
    /\ IF ok /\ ProfileStore.flags[mp[r].cands[mp[r].i]] # NoFlags
       THEN /\ ws' = ws \cup {WsOf(r)}
            /\ mp' = [mp EXCEPT ![r].pc = "launch"]
       ELSE /\ mp' = [mp EXCEPT ![r].pc = "done", ![r].resp = MpErrResponse("clone")]
            /\ UNCHANGED ws
    /\ Outcome(ok)
    /\ UNCHANGED <<probe, variant, now, cache, inflight, raws, callers, seed, seedOp,
                   sessions>>

(* cloneNamedProfileToTemp (server.js:127-159): mkdtemp or mkdir can fail,  *)
(* and the failure leaves tryProfileOnce, fetchFreshAuth and reaches the    *)
(* catch of the handler (server.js:323-325)                                 *)
MpClone(r, ok) ==
    /\ variant = "multi"
    /\ mp[r].pc = "clone"
    /\ IF ok
       THEN /\ ws' = ws \cup {WsOf(r)}
            /\ mp' = [mp EXCEPT ![r].pc = "launch"]
       ELSE /\ mp' = [mp EXCEPT ![r].pc = "done", ![r].resp = MpErrResponse("clone")]
            /\ UNCHANGED ws
    /\ Outcome(ok)
    /\ UNCHANGED <<probe, variant, now, cache, inflight, raws, callers, seed, seedOp,
                   sessions>>

(* puppeteer.launch (server.js:167-180), outside the try block *)
MpLaunch(r, ok) ==
    /\ variant = "multi"
    /\ mp[r].pc = "launch"
    /\ IF ok
       THEN /\ sessions' = sessions \cup {WsOf(r)}
            /\ mp' = [mp EXCEPT ![r].pc = "run"]
       ELSE /\ mp' = [mp EXCEPT ![r].pc = "done", ![r].resp = MpErrResponse("launch")]
            /\ UNCHANGED sessions
    /\ Outcome(ok)
    /\ UNCHANGED <<probe, variant, now, cache, inflight, raws, callers, seed, seedOp, ws>>

(* server.js:250: browser.close() ends the session of the attempt *)
ClosedNothing(open, r) == open

Closed(open, r) == open \ {WsOf(r)}

(* the try block and the finally of tryProfileOnce (server.js:182-251):     *)
(* browser.close() can throw, and that replaces the value returned          *)
MpRun(r, site, newPageOk, closeOk) ==
    /\ variant = "multi"
    /\ mp[r].pc = "run"
    /\ LET p == mp[r].cands[mp[r].i]
       IN  IF closeOk
           THEN /\ sessions' = Closed(sessions, r)
                /\ mp' = [mp EXCEPT ![r].pc = "cleanup",
                             ![r].att = TryBody(p, ProfileStore.flags[p], ProfileStore.jar[p], site,
                                                newPageOk, now)]
           ELSE /\ mp' = [mp EXCEPT ![r].pc = "done", ![r].resp = MpErrResponse("close")]
                /\ UNCHANGED sessions
    /\ Outcome(newPageOk /\ closeOk)
    /\ UNCHANGED <<probe, variant, now, cache, inflight, raws, callers, seed, seedOp, ws>>

(* server.js:263: the entry fetchFreshAuth records for an attempt *)
TriedEntry(candidate, att) ==
    [profile |-> candidate, ok |-> att.ok, error |-> att.error,
     pickedProfile |-> att.pickedProfile, source |-> att.source]

(* server.js:266-275 and server.js:279-286: what fetchFreshAuth returns *)
HarvestSuccess(candidate, att, tried) ==
    [cookies |-> att.cookies, cookieHeader |-> att.cookieHeader,
     authHeader |-> att.authHeader, foundAuth |-> att.foundAuth,
     pickedProfile |-> candidate, tried |-> tried]

HarvestDegradedFirst(cands, tried) ==
    [cookies |-> << >>, cookieHeader |-> EmptyStr, authHeader |-> EmptyStr,
     foundAuth |-> << >>, pickedProfile |-> cands[1], tried |-> tried]

HarvestDegraded(cands, tried) ==
    [cookies |-> << >>, cookieHeader |-> EmptyStr, authHeader |-> EmptyStr,
     foundAuth |-> << >>, pickedProfile |-> cands[Len(cands)], tried |-> tried]

ReturnsAlways(att) == TRUE

(* server.js:266 and server.js:261: return on success, else go on while     *)
(* candidates are left                                                      *)
ReturnsNow(att) == att.ok

HasNext(i, cands) == i < Len(cands)

(* server.js:309-322: fetchFreshAuth has returned h; the handler stores     *)
(* the cache entry and answers                                              *)
MpRespond(r, h, tried) ==
    /\ cache' = MpCacheEntry(h.cookieHeader, h.cookies, h.authHeader, now)
    /\ mp' = [mp EXCEPT ![r].pc = "done", ![r].tried = tried, ![r].att = NoAttempt,
                 ![r].resp = [status |-> 200, cookieHeader |-> h.cookieHeader,
                              authHeader |-> h.authHeader, foundAuth |-> h.foundAuth,
                              pickedProfile |-> h.pickedProfile, tried |-> h.tried,
                              fromCache |-> FALSE, error |-> ""]]

(* fetchFreshAuth after an attempt (server.js:263-286): record it, remove   *)
(* its workspace, then return or take the next candidate                    *)
MpCleanup(r) ==
    /\ variant = "multi"
    /\ mp[r].pc = "cleanup"
    /\ ws' = ws \ {WsOf(r)}
    /\ LET candidate == mp[r].cands[mp[r].i]
           tried == Append(mp[r].tried, TriedEntry(candidate, mp[r].att))
       IN  IF ReturnsNow(mp[r].att)
           THEN MpRespond(r, HarvestSuccess(candidate, mp[r].att, tried), tried)
           ELSE IF HasNext(mp[r].i, mp[r].cands)
           THEN /\ mp' = [mp EXCEPT ![r].pc = "clone", ![r].i = mp[r].i + 1,
                                    ![r].tried = tried, ![r].att = NoAttempt]
                /\ UNCHANGED cache
           ELSE MpRespond(r, HarvestDegraded(mp[r].cands, tried), tried)
    /\ UNCHANGED <<probe, variant, now, inflight, raws, callers, seed, seedOp, sessions, faults>>

-----------------------------------------------------------------------------
(* The functions of server.js called on their own *)

ProbeNames == {"SID", "__Secure-1PSID", "__Secure-3PSID",
               "SAPISID", "__Secure-1PAPISID", "__Secure-3PAPISID", "NID"}

ProbeValues == {EmptyStr, <<"a">>, <<"b">>}

ProbeCookies == {Ck(n, v, ".google.com") : n \in ProbeNames, v \in ProbeValues}

(* the lists of at most n elements of S *)
ListsOver(S, n) == UNION {[1..k -> S] : k \in 0..n}

ProbeLists == ListsOver(ProbeCookies, MaxLen)

PairCookies == {Ck("SAPISID", <<"a">>, ".google.com"),
                Ck("SAPISID", EmptyStr, ".google.com"),
                Ck("__Secure-3PAPISID", <<"a">>, ".google.com"),
                Ck("__Secure-3PAPISID", <<"b">>, ".google.com"),
                Ck("NID", <<"a">>, ".google.com")}

PairLists == ListsOver(PairCookies, MaxPairLen)

ProbeOrigins == {Origin, "https://example.com"}

ProbePreferred == {"Default", "Profile 1", "Profile 3", "Profile 8", ExtraProfile}

ProbeForced == {"", ExtraProfile, "Profile 2"}

(* what one getAllCookies can give: a jar without or with an identity      *)
(* cookie, at once or after 300 ms, or a rejection                         *)
PollSamples ==
    {[cookies |-> ck, took |-> d, fails |-> FALSE] : ck \in {<< >>, JarSid}, d \in {0, 300}}
    \cup {[cookies |-> << >>, took |-> 0, fails |-> TRUE]}

(* the samples the jar would give to MaxSamples successive getAllCookies *)
PollStreams == [1..MaxSamples -> PollSamples]

(* budgets that end within MaxSamples - 1 sleeps *)
PollBudgets == {100 * j : j \in 0..(5 * (MaxSamples - 1))}

(* what page.goto throws in each navigation of an attempt, "" for none,   *)
(* and what each poll of the attempt returns                              *)
ProbeThrown == [1..MaxNavigations -> {"", "TimeoutError"}]
                 \cup {[n \in 1..MaxNavigations |-> "Error"]}
ProbeJars == [1..MaxPolls -> {<< >>, JarSid}]

(* values of process.env.WAIT_UNTIL: unset, members of the enumerations,  *)
(* another word, each written in lower case or with capitals              *)
ProbeEnv == [word : {"", "load", "domcontentloaded", "networkidle", "networkidle0",
                     "networkidle2", "bogus"}, caps : BOOLEAN]
            \ {[word |-> "", caps |-> TRUE]}

(* sampled cookies of the target's domains, of another site, and without  *)
(* a domain                                                               *)
HeaderCookies == {Ck(n, v, d) : n \in {"SID", "NID"}, v \in {EmptyStr, <<"a">>},
                                d \in {".google.com", "ads.google.com", ".youtube.com", ""}}

(* a process in which the functions are called on their own *)
InitPure ==
    /\ variant = "pure"
    /\ cache = EmptyCacheCo
    /\ raws = << >>
    /\ callers = << >>
    /\ mp = << >>
    /\ InitCommon

Unprobed ==
    UNCHANGED <<variant, now, cache, inflight, raws, callers, seed, seedOp,
                ws, sessions, mp, faults>>

(* hasAuthCookies(list), server.js:86-88 *)
CallHasAuthCookies(list) ==
    /\ variant = "pure"
    /\ probe.fn = ""
    /\ probe' = [NoProbe EXCEPT !.fn = "hasAuthCookies", !.cookies = list,
                                !.out = hasAuthCookies(list)]
    /\ Unprobed

(* buildSAPISIDHASH(cookies, origin) at the time of the clock,             *)
(* server.js:78-85 and 448-455                                             *)
CallBuildSAPISIDHASH(cookies, origin) ==
    /\ variant = "pure"
    /\ probe.fn = ""
    /\ probe' = [NoProbe EXCEPT !.fn = "buildSAPISIDHASH", !.cookies = cookies,
                                !.origin = origin, !.t = now,
                                !.out = buildSAPISIDHASH(cookies, origin, now)]
    /\ Unprobed

(* a second call of buildSAPISIDHASH, with the same origin and another     *)
(* cookie list                                                             *)
CallBuildSAPISIDHASHAgain(other) ==
    /\ variant = "pure"
    /\ probe.fn = "buildSAPISIDHASH"
    /\ ~probe.again
    /\ probe.cookies \in PairLists
    /\ probe' = [probe EXCEPT !.again = TRUE, !.other = other, !.t2 = now,
                              !.out2 = buildSAPISIDHASH(other, probe.origin, now)]
    /\ Unprobed

(* the evaluation of an attempt whose last poll sampled `cookies`,         *)
(* server.js:220-241                                                       *)
EvaluateAttempt(cookies) ==
    /\ variant = "pure"
    /\ probe.fn = ""
    /\ probe' = [NoProbe EXCEPT !.fn = "tryProfileOnce", !.cookies = cookies,
                                !.origin = Origin, !.t = now,
                                !.out = AttemptReturned(ProfileStore.preferred,
                                            ProfileStore.flags[ProfileStore.preferred],
                                            cookies, now)]
    /\ Unprobed

(* waitForSID(page, timeoutMs), server.js:98-106, on a page whose jar      *)
(* gives `stream`                                                          *)
CallWaitForSID(stream, timeoutMs) ==
    /\ variant = "pure"
    /\ probe.fn = ""
    /\ probe' = [NoProbe EXCEPT !.fn = "waitForSID",
                                !.args = [stream |-> stream, timeoutMs |-> timeoutMs],
                                !.out = waitForSID(stream, timeoutMs)]
    /\ Unprobed

(* the module of one version is loaded with process.env.WAIT_UNTIL = env *)
LoadWaitUntil(version, env) ==
    /\ variant = "pure"
    /\ probe.fn = ""
    /\ probe' = [NoProbe EXCEPT !.fn = "WAIT_UNTIL",
                                !.args = [version |-> version, env |-> env],
                                !.out = WAIT_UNTIL(version, env)]
    /\ Unprobed

(* cookieHeaderFrom(cookies), server.js:457-462; the same expression      *)
(* builds cookieHeader in tryProfileOnce, server.js:224-227                *)
CallCookieHeaderFrom(cookies) ==
    /\ variant = "pure"
    /\ probe.fn = ""
    /\ probe' = [NoProbe EXCEPT !.fn = "cookieHeaderFrom", !.cookies = cookies,
                                !.out = cookieHeaderFrom(cookies)]
    /\ Unprobed

(* segments a cookie header can be made of: pairs, a pair with an empty    *)
(* value, with "=" in the value, with blanks around name and value, and    *)
(* segments without "=", without a name or with a blank name               *)
ProbeSegments ==
    {<<"a", "=", "b">>, <<"b", "=", "a">>, <<"a", "=">>, <<"a", "=", "b", "=", "c">>,
     <<" ", "a", " ", "=", " ", "b", " ">>,
     <<"a">>, EmptyStr, <<"=", "b">>, <<" ", "=", "b">>}

ProbeSeparators == {<<";", " ">>, <<";">>}

MaxSegments == 3

RECURSIVE JoinSegments(_, _)
JoinSegments(segs, seps) ==
    IF Len(segs) = 1 THEN segs[1]
    ELSE segs[1] \o seps[1] \o JoinSegments(Tail(segs), Tail(seps))

(* parseCookieHeader (server.js:425-446) on the header made of the         *)
(* segments, and cookieHeaderFrom (server.js:457-462) on what it returns   *)
CallParseCookieHeader(segs, seps) ==
    /\ variant = "pure"
    /\ probe.fn = ""
    /\ LET h == JoinSegments(segs, seps)
       IN  probe' = [NoProbe EXCEPT !.fn = "parseCookieHeader",
                                    !.args = [segs |-> segs, seps |-> seps, h |-> h],
                                    !.out = parseCookieHeader(h),
                                    !.out2 = cookieHeaderFrom(parseCookieHeader(h))]
    /\ Unprobed

(* server.js:401-405: the gate in front of every route *)
requireKeyOpen(API_KEY, key) == "next"

requireKey(API_KEY, key) ==
    IF API_KEY = "" THEN "next"
    ELSE IF key = API_KEY THEN "next"
    ELSE "401"

(* a request to a route of the coalescing version (server.js:598, 636,    *)
(* 651) in a process configured with API_KEY, the request carrying key in *)
(* x-api-key ("" for no header).  Express calls the handler only through  *)
(* next(): GET /cookie then starts a harvest over the empty slot           *)
(* (server.js:584-585), POST /seed with a valid body and DELETE /seed      *)
(* write the seed and empty the slot (server.js:642-643, 652-653)          *)
Request(route, API_KEY, key) ==
    /\ variant = "pure"
    /\ probe.fn = ""
    /\ LET gate == requireKey(API_KEY, key)
           args == [route |-> route, API_KEY |-> API_KEY, key |-> key]
       IN  IF gate = "401"
           THEN /\ probe' = [NoProbe EXCEPT !.fn = "request", !.args = args,
                                            !.out = [status |-> 401, entered |-> FALSE]]
                /\ UNCHANGED <<cache, inflight, seed>>
           ELSE /\ probe' = [NoProbe EXCEPT !.fn = "request", !.args = args,
                                            !.out = [status |-> IF route = "GET /cookie"
                                                                THEN 0 ELSE 200,
                                                     entered |-> TRUE]]
                /\ inflight' = IF route = "GET /cookie" /\ ~CacheFresh(cache, FALSE, now)
                                  /\ MustLaunch(inflight, FALSE)
                               THEN 1 ELSE inflight
                /\ seed' = CASE route = "POST /seed" -> <<"SID", "=", "9">>
                             [] route = "DELETE /seed" -> EmptyStr
                             [] OTHER -> seed
                /\ cache' = IF route = "GET /cookie" THEN cache ELSE InvalidatedCache
    /\ UNCHANGED <<variant, now, raws, callers, seedOp, ws, sessions, mp, faults>>

(* cleanup of a workspace invoked Len(ios) times *)
CallCleanup(dir, ios) ==
    /\ variant = "pure"
    /\ probe.fn = ""
    /\ probe' = [NoProbe EXCEPT !.fn = "cleanup",
                                !.args = [dir |-> dir, ios |-> ios],
                                !.out = Cleanups(dir, ios)]
    /\ Unprobed

(* one attempt of tryProfileOnce on a profile, server.js:164-252, with     *)
(* its navigations and polls written down                                  *)
CallTryProfileOnce(profile, thrown, jars) ==
    /\ variant = "pure"
    /\ probe.fn = ""
    /\ probe' = [NoProbe EXCEPT !.fn = "attempt",
                                !.args = [profile |-> profile, thrown |-> thrown,
                                          jars |-> jars],
                                !.t = now,
                                !.out = TryWalk(profile, thrown, jars, now)]
    /\ Unprobed

(* the candidates fetchFreshAuth walks, server.js:259 with                  *)
(* listCandidateProfiles, server.js:62-67                                  *)
ListCandidates(forcedProfile, preferred) ==
    /\ variant = "pure"
    /\ probe.fn = ""
    /\ probe' = [NoProbe EXCEPT !.fn = "candidates", !.forced = forcedProfile,
                                !.preferred = preferred,
                                !.out = CandidatesOf(forcedProfile, preferred,
                                                     ProfileCount)]
    /\ Unprobed

-----------------------------------------------------------------------------

NextCoalescing ==
    \/ \E c \in Reqs, force \in BOOLEAN, o \in QueryOptions :
          GetCookie(c, force, o.useSeed, o.clear)
    \/ \E k \in Runs, ok \in BOOLEAN : RawClone(k, ok)
    \/ \E k \in Runs, ok \in BOOLEAN : RawLaunch(k, ok)
    \/ \E k \in Runs, site \in SiteCookies, ok \in BOOLEAN : RawBody(k, site, ok)
    \/ \E k \in Runs : RawClose(k)
    \/ \E k \in Runs : RawCleanup(k)
    \/ \E body \in SeedBodies : SeedPost(body)
    \/ SeedDelete
    \/ \E ok \in BOOLEAN : SeedFinish(ok)

NextMulti ==
    \/ \E r \in Reqs, force \in BOOLEAN, profile \in {"", ExtraProfile} : MpGet(r, force, profile)
    \/ \E r \in Reqs, ok \in BOOLEAN : MpClone(r, ok)
    \/ \E r \in Reqs, ok \in BOOLEAN : MpLaunch(r, ok)
    \/ \E r \in Reqs, site \in SiteCookies, newPageOk, closeOk \in BOOLEAN :
          MpRun(r, site, newPageOk, closeOk)
    \/ \E r \in Reqs : MpCleanup(r)

Next == Tick \/ NextCoalescing \/ NextMulti

(* a process running either version *)
Spec == Init /\ [][Next]_vars

(* a process running the coalescing version *)
SpecCoalescing == InitCoalescing /\ [][Tick \/ NextCoalescing]_vars

(* a process running the multi-profile version *)
SpecMulti == InitMulti /\ [][Tick \/ NextMulti]_vars

(* a call is made when none was made before; the second call of           *)
(* buildSAPISIDHASH follows a first                                        *)
NextPure ==
    \/ /\ probe.fn = ""
       /\ \E list \in ProbeLists : CallHasAuthCookies(list)
    \/ /\ probe.fn = ""
       /\ \E cookies \in ProbeLists, origin \in ProbeOrigins :
             CallBuildSAPISIDHASH(cookies, origin)
    \/ /\ probe.fn = "buildSAPISIDHASH" /\ ~probe.again
       /\ \E other \in PairLists : CallBuildSAPISIDHASHAgain(other)
    \/ /\ probe.fn = ""
       /\ \E cookies \in ProbeLists : EvaluateAttempt(cookies)
    \/ /\ probe.fn = ""
       /\ \E forcedProfile \in ProbeForced, preferred \in ProbePreferred :
             ListCandidates(forcedProfile, preferred)
    \/ /\ probe.fn = ""
       /\ \E stream \in PollStreams, timeoutMs \in PollBudgets :
             CallWaitForSID(stream, timeoutMs)
    \/ /\ probe.fn = ""
       /\ \E route \in {"GET /cookie", "POST /seed", "DELETE /seed"},
             API_KEY \in {"", "k1"}, key \in {"", "k1", "k2"} :
             Request(route, API_KEY, key)
    \/ /\ probe.fn = ""
       /\ \E cookies \in ListsOver(HeaderCookies, MaxLen + 1) : CallCookieHeaderFrom(cookies)
    \/ /\ probe.fn = ""
       /\ \E k \in 1..MaxSegments :
             \E segs \in [1..k -> ProbeSegments], seps \in [1..(k - 1) -> ProbeSeparators] :
                CallParseCookieHeader(segs, seps)
    \/ /\ probe.fn = ""
       /\ \E version \in {"multi", "coalescing", "seed-only"}, env \in ProbeEnv :
             LoadWaitUntil(version, env)
    \/ /\ probe.fn = ""
       /\ \E dir \in {"absent", "partial", "full"}, ios \in ListsOver({"", "EBUSY"}, MaxLen + 1) :
             CallCleanup(dir, ios)
    \/ /\ probe.fn = ""
       /\ \E profile \in {"Default", "Profile 1"}, thrown \in ProbeThrown, jars \in ProbeJars :
             CallTryProfileOnce(profile, thrown, jars)

(* the functions called on their own, at any time of the clock *)
SpecPure == InitPure /\ [][Tick \/ NextPure]_vars

-----------------------------------------------------------------------------
(* Properties *)

ActiveRuns == {k \in Runs : raws[k].pc \notin {"unused", "settled"}}

Harvesting == {r \in Reqs : mp[r].pc \in {"clone", "launch", "run", "cleanup"}}

(* request c is handed to getCookiesAndHeader in this step *)
Calls(c) == callers[c].pc = "idle" /\ callers'[c].pc # "idle"

(* request r reaches the GET /cookie handler of the multi-profile version  *)
(* in this step                                                            *)
MpCalls(r) == mp[r].pc = "idle" /\ mp'[r].pc # "idle"

(* C1: in the coalescing harvester the calls that are not answered from    *)
(* the cache while a harvest is pending share that one harvest: at most    *)
(* one getCookiesAndHeaderRaw run is active at any time, every run was     *)
(* started by exactly one of the calls attached to it, a waiting call      *)
(* waits for a run that is still active, and the calls attached to the     *)
(* same run receive the identical result.                                  *)
C1_OneRunIdenticalResult ==
    variant = "coalescing" =>
        /\ Cardinality(ActiveRuns) <= 1
        /\ \A k \in Runs : raws[k].pc # "unused" =>
              Cardinality({c \in Reqs : callers[c].run = k /\ callers[c].started}) = 1
        /\ \A c \in Reqs : callers[c].pc = "waiting" =>
              callers[c].run \in ActiveRuns /\ callers[c].run = inflight
        /\ \A c \in Reqs : callers[c].pc = "done" /\ callers[c].run # 0 =>
              raws[callers[c].run].pc = "settled"
        /\ \A c, d \in Reqs :
              (/\ callers[c].run # 0
               /\ callers[c].run = callers[d].run
               /\ callers[c].pc = "done"
               /\ callers[d].pc = "done") => callers[c].resp = callers[d].resp

(* two calls shared one run and both were answered with its result *)
C1_Witness ==
    \E c, d \in Reqs :
        /\ c # d
        /\ callers[c].pc = "done" /\ callers[d].pc = "done"
        /\ callers[c].run # 0 /\ callers[c].run = callers[d].run
        /\ callers[c].resp.status = 200 /\ ~callers[c].resp.fromCache

(* C2, as claimed: while a harvest is in flight every call, forced or not  *)
(* and whatever the slot holds, attaches to the in-flight operation and    *)
(* starts no second harvest.                                               *)
C2_EveryCallAttaches ==
    [][\A c \in Reqs :
          (variant = "coalescing" /\ inflight # 0 /\ Calls(c)) =>
              /\ callers'[c].pc = "waiting"
              /\ callers'[c].run = inflight
              /\ inflight' = inflight
              /\ raws' = raws]_vars

(* the result a call attached to run k resolves with is the result of k *)
ResolvedWithRun(c) ==
    LET k == callers[c].run
    IN  (callers[c].pc = "done" /\ k # 0) =>
            IF raws[k].threw
            THEN callers[c].resp.status = 500
            ELSE /\ callers[c].resp.status = 200
                 /\ ~callers[c].resp.fromCache
                 /\ callers[c].resp.cookies = raws[k].cookies

(* C2, amended: while a harvest is in flight, a call that is forced, or    *)
(* finds the slot's cookie header empty, or finds the slot expired,        *)
(* attaches to the in-flight operation and resolves with its result; a     *)
(* call that is not forced and finds a non-empty unexpired slot is         *)
(* answered from the cache; neither starts a second harvest.               *)
C2_UncachedCallAttaches ==
    [][/\ \A c \in Reqs : (inflight # 0 /\ Calls(c)) =>
          \A force \in BOOLEAN, o \in QueryOptions :
             GetCookie(c, force, o.useSeed, o.clear) =>
                 /\ inflight' = inflight
                 /\ raws' = raws
                 /\ IF ~force /\ Len(cache.header) > 0 /\ now < cache.expires
                    THEN /\ callers'[c].pc = "done"
                         /\ callers'[c].resp.fromCache
                         /\ callers'[c].resp.header = cache.header
                    ELSE /\ callers'[c].pc = "waiting"
                         /\ callers'[c].run = inflight
                         /\ ~callers'[c].started
       /\ \A c \in Reqs : ResolvedWithRun(c)']_vars

(* a call attached to a run another call had started, and got its result *)
C2_Witness ==
    \E c \in Reqs :
        /\ callers[c].pc = "done"
        /\ callers[c].run # 0
        /\ ~callers[c].started
        /\ callers[c].resp.status = 200

(* C3, as claimed: in the multi-profile harvester at most one harvest      *)
(* (one fetchFreshAuth run, one session, one workspace) is active at any   *)
(* instant.                                                                *)
C3_AtMostOneHarvest ==
    variant = "multi" =>
        /\ Cardinality(Harvesting) <= 1
        /\ Cardinality(sessions) <= 1

(* C4, as claimed: a call with force=false made before the slot's expiry   *)
(* is answered with the stored result marked fromCache and starts no       *)
(* harvest, whatever the last completed harvest stored, and leaves the     *)
(* slot and the in-flight marker unchanged.                                *)
C4_UnexpiredSlotServed ==
    [][/\ \A c \in Reqs : (variant = "coalescing" /\ Calls(c) /\ now < cache.expires) =>
          \A o \in QueryOptions :
             GetCookie(c, FALSE, o.useSeed, o.clear) =>
                 /\ callers'[c].pc = "done"
                 /\ callers'[c].resp.fromCache
                 /\ callers'[c].resp.header = cache.header
                 /\ UNCHANGED <<cache, inflight, raws>>
       /\ \A r \in Reqs : (variant = "multi" /\ MpCalls(r) /\ now < cache.expires) =>
          \A profile \in {"", ExtraProfile} :
             MpGet(r, FALSE, profile) =>
                 /\ mp'[r].pc = "done"
                 /\ mp'[r].resp.fromCache
                 /\ mp'[r].resp.cookieHeader = cache.cookieHeader
                 /\ UNCHANGED cache]_vars

(* C4, amended: a call with force=false made before the slot's expiry      *)
(* while the slot's cookie header is non-empty (and, in the multi-profile  *)
(* version, naming no profile) is answered with the stored result marked   *)
(* fromCache, starts no harvest and leaves the slot and the in-flight      *)
(* marker unchanged; any other call is not answered from the slot, so an   *)
(* unexpired slot with an empty cookie header is never served.             *)
C4_PopulatedUnexpiredSlotServed ==
    [][/\ \A c \in Reqs : (variant = "coalescing" /\ Calls(c)) =>
          \A force \in BOOLEAN, o \in QueryOptions :
             GetCookie(c, force, o.useSeed, o.clear) =>
                 IF ~force /\ now < cache.expires /\ Len(cache.header) > 0
                 THEN /\ callers'[c].pc = "done"
                      /\ callers'[c].run = 0
                      /\ callers'[c].resp.status = 200
                      /\ callers'[c].resp.fromCache
                      /\ callers'[c].resp.header = cache.header
                      /\ callers'[c].resp.cookies = cache.cookies
                      /\ UNCHANGED <<cache, inflight, raws, ws, sessions>>
                 ELSE /\ callers'[c].pc = "waiting"
                      /\ UNCHANGED cache
       /\ \A r \in Reqs : (variant = "multi" /\ MpCalls(r)) =>
          \A force \in BOOLEAN, profile \in {"", ExtraProfile} :
             MpGet(r, force, profile) =>
                 IF ~force /\ now < cache.expires /\ Len(cache.cookieHeader) > 0
                       /\ profile = ""
                 THEN /\ mp'[r].pc = "done"
                      /\ mp'[r].resp.status = 200
                      /\ mp'[r].resp.fromCache
                      /\ mp'[r].resp.cookieHeader = cache.cookieHeader
                      /\ mp'[r].resp.authHeader = cache.authHeader
                      /\ UNCHANGED <<cache, ws, sessions>>
                 ELSE /\ mp'[r].pc = "clone"
                      /\ UNCHANGED cache]_vars

(* a call was answered from a populated, unexpired slot *)
C4_Witness ==
    \E c \in Reqs :
        /\ variant = "coalescing"
        /\ callers[c].pc = "done"
        /\ callers[c].run = 0
        /\ callers[c].resp.fromCache
        /\ Len(callers[c].resp.header) > 0

(* C5: every completed harvest, populated or degraded, replaces the slot   *)
(* wholesale by its result, with expiry = completion time + COOKIE_TTL_MS. *)
C5_CompletedHarvestReplacesSlot ==
    [][/\ \A k \in Runs :
             (/\ variant = "coalescing"
              /\ raws[k].pc = "cleanup" /\ raws'[k].pc = "settled"
              /\ ~raws[k].threw) =>
                 cache' = [header |-> cookieHeaderFrom(raws[k].cookies),
                           cookies |-> raws[k].cookies,
                           expires |-> now + COOKIE_TTL_MS]
       /\ \A r \in Reqs :
             (/\ variant = "multi"
              /\ mp[r].pc = "cleanup" /\ mp'[r].pc = "done") =>
                 cache' = [cookieHeader |-> mp'[r].resp.cookieHeader,
                           cookies |-> IF mp[r].att.ok THEN mp[r].att.cookies ELSE << >>,
                           authHeader |-> mp'[r].resp.authHeader,
                           expires |-> now + COOKIE_TTL_MS]]_vars

(* a degraded harvest, completed after the clock moved, took the place of  *)
(* a populated entry: nothing of that entry is left                        *)
C5_Witness ==
    /\ variant = "coalescing"
    /\ now > 0
    /\ cache = [header |-> EmptyStr, cookies |-> << >>, expires |-> now + COOKIE_TTL_MS]
    /\ \E c \in Reqs :
          /\ callers[c].pc = "done"
          /\ callers[c].run # 0
          /\ callers[c].resp.status = 200
          /\ callers[c].resp.header = EmptyStr

(* C6, as claimed: writing or clearing the seed sets the slot to empty     *)
(* with expiry 0, and the next read after it is not answered from the      *)
(* cache: it starts a harvest or attaches to one.                          *)
C6_InvalidationForcesHarvest ==
    [][/\ (seedOp.pc = "writing" /\ seedOp'.status = 200) =>
             cache' = [header |-> EmptyStr, cookies |-> << >>, expires |-> 0]
       /\ \A c \in Reqs :
             (variant = "coalescing" /\ seedOp.unread /\ Calls(c)) =>
                 /\ callers'[c].pc = "waiting"
                 /\ callers'[c].run = inflight'
                 /\ inflight' # 0]_vars

(* the harvest of request r has been started (the request was not answered *)
(* from the cache)                                                         *)
Harvested(r) == mp[r].pc # "idle" /\ mp[r].i > 0

AllFailed(tried) == \A j \in 1..Len(tried) : ~tried[j].ok

C8_WorkspaceRemoved ==
    /\ \A r \in DOMAIN mp : mp[r].pc = "done" => ~ \E w \in ws : w[1] = "req" /\ w[2] = r
    /\ \A k \in DOMAIN raws : raws[k].pc = "settled" => <<"run", k>> \notin ws

HoldsIdentity(jar) == \E j \in 1..Len(jar) : jar[j].name \in IdentityNames

HoldsSecret(jar) == \E j \in 1..Len(jar) : jar[j].name \in SecretNames

ContainsSeq(str, part) ==
    \E i \in 1..(Len(str) - Len(part) + 1) : SubSeq(str, i, i + Len(part) - 1) = part

(* C9, as claimed: when candidate k is the first candidate whose jar holds *)
(* an identity cookie, a harvest that returns reports pickedProfile = k,   *)
(* names that cookie in foundAuth and gives its name=value pair in a       *)
(* non-empty cookie header, even when earlier candidates have no cookie    *)
(* store.                                                                  *)
C9_FirstIdentityCandidatePicked ==
    \A r \in Reqs :
        (/\ variant = "multi"
         /\ mp[r].pc = "done"
         /\ mp[r].resp.status = 200
         /\ ~mp[r].resp.fromCache) =>
            \A k \in 1..Len(mp[r].cands) :
                (/\ HoldsIdentity(ProfileStore.jar[mp[r].cands[k]])
                 /\ \A j \in 1..(k - 1) : ~HoldsIdentity(ProfileStore.jar[mp[r].cands[j]])) =>
                    /\ mp[r].resp.pickedProfile = mp[r].cands[k]
                    /\ \E j \in 1..Len(ProfileStore.jar[mp[r].cands[k]]) :
                          LET ck == ProfileStore.jar[mp[r].cands[k]][j]
                          IN  /\ ck.name \in IdentityNames
                              /\ \E f \in 1..Len(mp[r].resp.foundAuth) :
                                    mp[r].resp.foundAuth[f] = ck.name
                              /\ ContainsSeq(mp[r].resp.cookieHeader, ck.name \o <<"=">>)

(* C10, as claimed: when no candidate reports an identity or a secret      *)
(* cookie, the harvest returns normally, with an empty cookie header, an   *)
(* empty auth header, an empty foundAuth and a trace of one entry per      *)
(* candidate, in order, with the candidate's name and presence flags.      *)
C10_DegradedResultNotThrown ==
    \A r \in Reqs :
        (/\ variant = "multi"
         /\ mp[r].pc = "done"
         /\ Harvested(r)
         /\ \A k \in 1..Len(mp[r].cands) :
               ~HoldsIdentity(ProfileStore.jar[mp[r].cands[k]]) /\ ~HoldsSecret(ProfileStore.jar[mp[r].cands[k]])
         /\ AllFailed(mp[r].tried)) =>
            /\ mp[r].resp.status = 200
            /\ mp[r].resp.cookieHeader = EmptyStr
            /\ mp[r].resp.authHeader = EmptyStr
            /\ mp[r].resp.foundAuth = << >>
            /\ Len(mp[r].resp.tried) = Len(mp[r].cands)
            /\ \A j \in 1..Len(mp[r].resp.tried) :
                  /\ mp[r].resp.tried[j].profile = mp[r].cands[j]
                  /\ mp[r].resp.tried[j].source = ProfileStore.flags[mp[r].cands[j]]

(* C11, as claimed: a failure to create the workspace or to open the       *)
(* session for one candidate does not abort the harvest: the harvest goes  *)
(* on to the next candidate, and it is answered as failed only when the    *)
(* failure happened for every candidate of its list.                       *)
C11_OpenFailureNotFatal ==
    \A r \in Reqs :
        (/\ variant = "multi"
         /\ mp[r].pc = "done"
         /\ mp[r].resp.status = 500
         /\ mp[r].resp.error \in {"clone", "launch"}) =>
            /\ mp[r].i = Len(mp[r].cands)
            /\ Len(mp[r].tried) = 0

(* run k settles as rejected in this step *)
Fails(k) == raws[k].pc \notin {"unused", "settled"} /\ raws'[k].pc = "settled" /\ raws'[k].threw

(* every caller attached to run k is answered, in this step, the one 500 *)
SameFailure(k) ==
    \A c \in Reqs : (callers[c].pc = "waiting" /\ callers[c].run = k) =>
        /\ callers'[c].pc = "done"
        /\ callers'[c].resp.status = 500
        /\ \A d \in Reqs : (callers[d].pc = "waiting" /\ callers[d].run = k) =>
              callers'[d].resp = callers'[c].resp

(* C12, as claimed: when the harvest in flight fails, every caller         *)
(* attached to it receives the same failure and the cache slot is exactly  *)
(* as it was before the harvest started; the failure is not cached.        *)
C12_FailureLeavesSlotAsAtStart ==
    [][\A k \in Runs : (variant = "coalescing" /\ Fails(k)) =>
          /\ SameFailure(k)
          /\ cache' = raws[k].slot0]_vars

(* C12, amended: when the harvest in flight fails, every caller attached   *)
(* to it receives the same failure, and the failing harvest does not write *)
(* the cache slot: the slot is as it was before the harvest started,       *)
(* unless a seed write or clear completed while the harvest was in flight, *)
(* in which case it is the empty slot with expiry 0.                       *)
C12_FailedHarvestWritesNoSlot ==
    [][\A k \in Runs : (variant = "coalescing" /\ Fails(k)) =>
          /\ SameFailure(k)
          /\ inflight' = 0
          /\ cache' = cache
          /\ \/ cache' = raws[k].slot0
             \/ cache' = [header |-> EmptyStr, cookies |-> << >>, expires |-> 0]]_vars

(* two callers attached to one run were answered its failure, and the      *)
(* populated slot of an earlier harvest is still there                     *)
C12_Witness ==
    /\ Len(cache.header) > 0
    /\ \E c, d \in Reqs :
          /\ c # d
          /\ callers[c].pc = "done" /\ callers[d].pc = "done"
          /\ callers[c].run # 0 /\ callers[c].run = callers[d].run
          /\ callers[c].resp.status = 500
          /\ callers[d].resp = callers[c].resp

(* the steps run k of getCookiesAndHeaderRaw can take *)
RunStep(k) ==
    \/ \E ok \in BOOLEAN : RawClone(k, ok)
    \/ \E ok \in BOOLEAN : RawLaunch(k, ok)
    \/ \E site \in SiteCookies, ok \in BOOLEAN : RawBody(k, site, ok)
    \/ RawClose(k)
    \/ RawCleanup(k)

(* the steps the handler of request r can take in the multi-profile version *)
MpStep(r) ==
    \/ \E ok \in BOOLEAN : MpClone(r, ok)
    \/ \E ok \in BOOLEAN : MpLaunch(r, ok)
    \/ \E site \in SiteCookies, newPageOk, closeOk \in BOOLEAN :
          MpRun(r, site, newPageOk, closeOk)
    \/ MpCleanup(r)

(* a request that was received and is not answered yet can take its next   *)
(* step: it never hangs without a response                                 *)
NeverStuck ==
    /\ \A c \in DOMAIN callers : callers[c].pc = "waiting" =>
          callers[c].run # 0 /\ ENABLED RunStep(callers[c].run)
    /\ \A r \in DOMAIN mp : mp[r].pc \notin {"idle", "done"} => ENABLED MpStep(r)

(* C13: every GET /cookie request is answered exactly once when its        *)
(* handler finishes: a request that is not finished has no answer yet, a   *)
(* finished request has one, an answer once given is                       *)
(* never changed or repeated, and the answer is either a result with       *)
(* status 200 (populated or degraded and empty) and no error, or status    *)
(* 500 with a non-empty error message and nothing else, so no exception    *)
(* leaves the handler unanswered; the step that answers with an error      *)
(* leaves the cache slot unchanged.                                        *)
C13_OneStructuredResponse ==
    [][/\ variant = "coalescing" => \A c \in Reqs :
             /\ callers[c].pc = "done" => callers'[c] = callers[c]
             /\ callers'[c].pc # "done" => callers'[c].resp = NoResp
             /\ callers'[c].pc = "done" =>
                   \/ /\ callers'[c].resp.status = 200
                      /\ callers'[c].resp.error = ""
                   \/ /\ callers'[c].resp.status = 500
                      /\ callers'[c].resp.error # ""
                      /\ callers'[c].resp =
                            [NoResp EXCEPT !.status = 500,
                                           !.error = callers'[c].resp.error]
             /\ (/\ callers[c].pc # "done" /\ callers'[c].pc = "done"
                 /\ callers'[c].resp.status = 500) => cache' = cache
       /\ variant = "multi" => \A r \in Reqs :
             /\ mp[r].pc = "done" => mp'[r] = mp[r]
             /\ mp'[r].pc # "done" => mp'[r].resp = MpNoResp
             /\ mp'[r].pc = "done" =>
                   \/ /\ mp'[r].resp.status = 200
                      /\ mp'[r].resp.error = ""
                   \/ /\ mp'[r].resp.status = 500
                      /\ mp'[r].resp.error # ""
                      /\ mp'[r].resp =
                            [MpNoResp EXCEPT !.status = 500,
                                             !.error = mp'[r].resp.error]
             /\ (/\ mp[r].pc # "done" /\ mp'[r].pc = "done"
                 /\ mp'[r].resp.status = 500) => cache' = cache]_vars

(* one request was answered with an error and another with a result       *)
C13_Witness ==
    \/ \E c, d \in Reqs :
          /\ variant = "coalescing"
          /\ callers[c].pc = "done" /\ callers[c].resp.status = 500
          /\ callers[d].pc = "done" /\ callers[d].resp.status = 200
    \/ \E r, q \in Reqs :
          /\ variant = "multi"
          /\ mp[r].pc = "done" /\ mp[r].resp.status = 500
          /\ mp[q].pc = "done" /\ mp[q].resp.status = 200

(* the cookies a header holds as name=value pairs, for the seed headers    *)
(* the model stores                                                        *)
SeededCookies(str) ==
    IF str = <<"SID", "=", "9", ";", " ", "x">>
    THEN <<Ck("SID", <<"9">>, ".google.com")>>
    ELSE << >>

(* run k leaves the try block of getCookiesAndHeaderRaw with its cookies *)
Harvests(k) == raws[k].pc = "prepare" /\ raws'[k].pc = "close" /\ ~raws'[k].threw

(* C14: when a harvest runs with seeding enabled, the cookies of the       *)
(* stored seed header are in the session before the navigation: the jar    *)
(* the harvest returns is the session's jar (emptied when clear was asked) *)
(* with the seed's cookies added and then whatever the site set, so every  *)
(* seeded name is in it, with the seeded value when the site sets nothing; *)
(* with seeding disabled, or no seed stored, the jar holds nothing but the *)
(* session's and the site's cookies.                                       *)
C14_SeedInjectedBeforeNavigation ==
    [][\A k \in DOMAIN raws : (variant = "coalescing" /\ Harvests(k)) =>
          LET start == IF raws[k].clear THEN << >> ELSE raws[k].jar
              toSet == IF raws[k].useSeed THEN SeededCookies(seed) ELSE << >>
              got == raws'[k].cookies
          IN  /\ \E site \in SiteCookies :
                    got = addCookies(addCookies(start, toSet), site)
              /\ \A i \in 1..Len(toSet) : \E j \in 1..Len(got) :
                    /\ got[j].name = toSet[i].name
                    /\ \/ got[j].value = toSet[i].value
                       \/ \E site \in SiteCookies : \E m \in 1..Len(site) :
                             got[j] = site[m]
              /\ \A j \in 1..Len(got) :
                    \/ \E i \in 1..Len(start) : got[j] = start[i]
                    \/ \E i \in 1..Len(toSet) : got[j] = toSet[i]
                    \/ \E site \in SiteCookies : \E m \in 1..Len(site) :
                          got[j] = site[m]]_vars

(* a seeded harvest during which the site set nothing returned the seeded  *)
(* cookie                                                                  *)
C14_Witness ==
    /\ variant = "coalescing"
    /\ Len(seed) > 0
    /\ \E c \in DOMAIN callers :
          /\ callers[c].pc = "done" /\ callers[c].resp.status = 200
          /\ ~callers[c].resp.fromCache
          /\ callers[c].resp.cookies = <<Ck("SID", <<"9">>, ".google.com")>>

(* the POST /seed or DELETE /seed request in progress ends in this step *)
SeedEnds == seedOp.pc = "writing" /\ seedOp'.pc = "idle"

(* C15: when a POST /seed or a DELETE /seed completes after its write      *)
(* succeeded, the seed file holds the posted header (nothing after a       *)
(* DELETE) and the cache slot is empty with expiry 0, whatever it held;    *)
(* a seed request refused or failed leaves the file and the slot alone.    *)
C15_SeedWriteEmptiesSlot ==
    [][variant = "coalescing" =>
          /\ (SeedEnds /\ seedOp'.status = 200) =>
                /\ cache'.header = EmptyStr
                /\ cache'.cookies = << >>
                /\ cache'.expires = 0
                /\ seed' = IF seedOp.kind = "post" THEN seedOp.body ELSE EmptyStr
          /\ (SeedEnds /\ seedOp'.status # 200) => UNCHANGED <<cache, seed>>
          /\ (/\ seedOp.pc = "idle" /\ seedOp'.pc = "idle"
              /\ seedOp'.status # seedOp.status) =>
                /\ seedOp'.status = 400
                /\ UNCHANGED <<cache, seed>>]_vars

(* a seed header was written after a harvest had populated the slot, and   *)
(* the slot is empty                                                       *)
C15_Witness ==
    /\ variant = "coalescing"
    /\ seedOp.status = 200 /\ seedOp.unread
    /\ Len(seed) > 0
    /\ cache = [header |-> EmptyStr, cookies |-> << >>, expires |-> 0]
    /\ now = 0
    /\ \E c \in DOMAIN callers :
          /\ callers[c].pc = "done" /\ callers[c].resp.status = 200
          /\ ~callers[c].resp.fromCache
          /\ Len(callers[c].resp.header) > 0

(* C16: hasAuthCookies(list) is true exactly when the list holds a cookie  *)
(* named SID, __Secure-1PSID or __Secure-3PSID, whatever its position and  *)
(* value; it is true for [SID], false for the empty list and false for a   *)
(* list of other names.                                                    *)
C16_IdentityCookiePredicate ==
    (variant = "pure" /\ probe.fn = "hasAuthCookies") =>
        LET list == probe.cookies
        IN  /\ probe.out \in BOOLEAN
            /\ probe.out <=>
                  \E i \in 1..Len(list) :
                     \/ list[i].name = <<"SID">>
                     \/ list[i].name = <<"__Secure-1PSID">>
                     \/ list[i].name = <<"__Secure-3PSID">>
            /\ (Len(list) = 1 /\ list[1].name = <<"SID">>) => probe.out
            /\ Len(list) = 0 => ~probe.out
            /\ (\A i \in 1..Len(list) :
                   list[i].name \in {<<"NID">>, <<"SAPISID">>, <<"__Secure-1PAPISID">>,
                                     <<"__Secure-3PAPISID">>}) => ~probe.out

(* the predicate was true of a list whose identity cookie is not the first *)
C16_Witness ==
    /\ probe.fn = "hasAuthCookies"
    /\ Len(probe.cookies) = 2
    /\ probe.cookies[1].name = <<"NID">>
    /\ probe.cookies[2].name = <<"__Secure-3PSID">>
    /\ probe.out = TRUE

(* the value of the first cookie of the list named n, empty when there is  *)
(* none                                                                    *)
FirstNamed(list, n) ==
    IF \E i \in 1..Len(list) : list[i].name = n
    THEN list[CHOOSE i \in 1..Len(list) :
                 /\ list[i].name = n
                 /\ \A j \in 1..(i - 1) : list[j].name # n].value
    ELSE EmptyStr

(* the secret the hash is taken over: of SAPISID, __Secure-3PAPISID and    *)
(* __Secure-1PAPISID, in this order, the first whose value is not empty    *)
SelectedSecret(list) ==
    LET a == FirstNamed(list, <<"SAPISID">>)
        b == FirstNamed(list, <<"__Secure-3PAPISID">>)
        c == FirstNamed(list, <<"__Secure-1PAPISID">>)
    IN  IF a # EmptyStr THEN a ELSE IF b # EmptyStr THEN b ELSE c

(* C17: two calls of buildSAPISIDHASH with the same origin at the same     *)
(* time of the clock return the identical string whenever the two cookie   *)
(* lists select the same secret value, however the lists differ otherwise  *)
(* (other cookies, the order, the name the secret is stored under); two    *)
(* calls with the same list are the special case.                          *)
C17_HashDependsOnSelectedSecretOnly ==
    (/\ variant = "pure" /\ probe.fn = "buildSAPISIDHASH" /\ probe.again
     /\ probe.t = probe.t2) =>
        (SelectedSecret(probe.cookies) = SelectedSecret(probe.other) =>
            probe.out = probe.out2)

(* two different lists that select the same secret gave the same non-empty *)
(* header                                                                  *)
C17_Witness ==
    /\ probe.fn = "buildSAPISIDHASH" /\ probe.again
    /\ probe.t = probe.t2
    /\ probe.cookies = <<Ck("SAPISID", <<"a">>, ".google.com")>>
    /\ probe.other = <<Ck("NID", <<"a">>, ".google.com"),
                       Ck("__Secure-3PAPISID", <<"a">>, ".google.com")>>
    /\ probe.out = probe.out2
    /\ Len(probe.out) > 0

(* the secret names in the order buildSAPISIDHASH looks them up *)
SecretOrder == <<(<<"SAPISID">>), (<<"__Secure-3PAPISID">>), (<<"__Secure-1PAPISID">>)>>

(* the secret names that name a cookie of the list, in lookup order *)
PresentSecrets(list) ==
    SelectSeq(SecretOrder, LAMBDA n : \E i \in 1..Len(list) : list[i].name = n)

(* 'SAPISIDHASH <ts>_<digest>' with the digest over '<ts> <secret> <origin>' *)
HashHeader(ts, secret, origin) == <<"SAPISIDHASH", ts, <<"sha1", ts, secret, origin>>>>

(* C18, as claimed: buildSAPISIDHASH takes the secret from the first       *)
(* cookie that is present, in the order SAPISID, __Secure-3PAPISID,        *)
(* __Secure-1PAPISID; it returns the empty string when none is present     *)
(* and the header over that secret otherwise.                              *)
C18_FirstPresentSecretUsed ==
    (variant = "pure" /\ probe.fn = "buildSAPISIDHASH") =>
        LET present == PresentSecrets(probe.cookies)
        IN  probe.out =
               IF Len(present) = 0 THEN EmptyStr
               ELSE HashHeader(probe.t, FirstNamed(probe.cookies, present[1]),
                               probe.origin)

(* C18, amended: buildSAPISIDHASH takes the secret from the first cookie,  *)
(* in the order SAPISID, __Secure-3PAPISID, __Secure-1PAPISID, whose value *)
(* is not empty (a cookie with an empty value counts as absent, and a      *)
(* cookie with a value is used even when a later one has a value too); it  *)
(* returns the empty string when there is none and 'SAPISIDHASH            *)
(* <ts>_<digest>', the digest over '<ts> <secret> <origin>', otherwise.    *)
C18_FirstNonEmptySecretUsed ==
    (variant = "pure" /\ probe.fn = "buildSAPISIDHASH") =>
        LET secret == SelectedSecret(probe.cookies)
        IN  probe.out =
               IF secret = EmptyStr THEN EmptyStr
               ELSE HashHeader(probe.t, secret, probe.origin)

(* SAPISID was used although __Secure-3PAPISID comes first in the list and *)
(* has a value too                                                         *)
C18_Witness ==
    /\ probe.fn = "buildSAPISIDHASH"
    /\ probe.cookies = <<Ck("__Secure-3PAPISID", <<"b">>, ".google.com"),
                         Ck("SAPISID", <<"a">>, ".google.com")>>
    /\ probe.out = HashHeader(probe.t, <<"a">>, probe.origin)

(* C19: the candidate list is the forced profile name alone when the       *)
(* caller supplies one; otherwise it is the preferred name followed by     *)
(* Default, Profile 1 .. Profile 8 without the preferred name: no name is  *)
(* repeated, the preferred name is first and every generated name is in    *)
(* the list.                                                               *)
C19_CandidateOrder ==
    (variant = "pure" /\ probe.fn = "candidates") =>
        LET names == <<"Default", "Profile 1", "Profile 2", "Profile 3", "Profile 4",
                       "Profile 5", "Profile 6", "Profile 7", "Profile 8">>
            out == probe.out
        IN  IF probe.forced # ""
            THEN out = <<probe.forced>>
            ELSE /\ out = <<probe.preferred>>
                          \o SelectSeq(names, LAMBDA n : n # probe.preferred)
                 /\ out[1] = probe.preferred
                 /\ \A i, j \in 1..Len(out) : i # j => out[i] # out[j]
                 /\ \A i \in 1..Len(names) : \E j \in 1..Len(out) : out[j] = names[i]

(* the preferred name is one of the generated names: it is listed once,    *)
(* first                                                                   *)
C19_Witness ==
    /\ probe.fn = "candidates"
    /\ probe.forced = ""
    /\ probe.preferred = "Profile 3"
    /\ Len(probe.out) = 9
    /\ probe.out[1] = "Profile 3"
    /\ probe.out[2] = "Default"

RECURSIVE StartOfSample(_, _)
StartOfSample(stream, i) ==
    IF i = 1 THEN 0
    ELSE StartOfSample(stream, i - 1) + stream[i - 1].took + 500

(* the i-th sample ends the call: it rejects, it holds an identity cookie, *)
(* or the budget has elapsed when it starts                                *)
EndsPoll(stream, i, timeoutMs) ==
    \/ stream[i].fails
    \/ \E j \in 1..Len(stream[i].cookies) :
          stream[i].cookies[j].name \in {<<"SID">>, <<"__Secure-1PSID">>,
                                         <<"__Secure-3PSID">>}
    \/ StartOfSample(stream, i) >= timeoutMs

(* C21: waitForSID takes at least one sample of the jar; it returns the    *)
(* first sample that holds an identity cookie, with no sleep and no sample *)
(* after it; when the budget has elapsed before a sample holds one, it     *)
(* returns that one last sample as a normal value, whatever it holds; a    *)
(* sleep separates any two samples; the call raises an error only when a   *)
(* sample itself is rejected, never because the budget elapsed.            *)
C21_PollReturnsFirstMatchOrFinalSample ==
    (variant = "pure" /\ probe.fn = "waitForSID") =>
        LET stream == probe.args.stream
            budget == probe.args.timeoutMs
            last == CHOOSE i \in 1..Len(stream) :
                       /\ EndsPoll(stream, i, budget)
                       /\ \A j \in 1..(i - 1) : ~EndsPoll(stream, j, budget)
        IN  /\ probe.out.samples >= 1
            /\ probe.out.samples = last
            /\ probe.out.sleeps = last - 1
            /\ probe.out.threw = stream[last].fails
            /\ ~probe.out.threw => probe.out.cookies = stream[last].cookies

(* the budget elapsed after two samples without an identity cookie, and    *)
(* the third, final sample was returned although it holds none either      *)
C21_Witness ==
    /\ probe.fn = "waitForSID"
    /\ probe.args.timeoutMs = 1000
    /\ probe.out.samples = 3
    /\ probe.out.sleeps = 2
    /\ ~probe.out.threw
    /\ probe.out.cookies = << >>

(* C22: in every attempt the poller runs once after the primary           *)
(* navigation and at most once more, after the re-verify navigation and    *)
(* only when the first poll's result holds no identity cookie; when the    *)
(* first poll finds an identity cookie no re-verify navigation and no      *)
(* second poll happen.                                                     *)
C22_AtMostTwoPollsPerCandidate ==
    (variant = "pure" /\ probe.fn = "attempt") =>
        LET polls == probe.out.polls
            navs == probe.out.navigations
            first == probe.args.jars[1]
            identity == \E j \in 1..Len(first) :
                            first[j].name \in {<<"SID">>, <<"__Secure-1PSID">>,
                                               <<"__Secure-3PSID">>}
        IN  /\ Len(polls) \in 1..2
            /\ identity => /\ Len(polls) = 1
                           /\ \A n \in 1..Len(navs) : navs[n].url # "gaiacheck"
            /\ Len(polls) = 2 => ~identity

(* C23: a navigation that times out or fails never raises into the        *)
(* attempt: the soft navigation returns a failure outcome, the attempt     *)
(* does not end with the navigation's error, and an attempt with a failed  *)
(* navigation goes on to sample the cookie jar.                            *)
C23_FailedNavigationStillSamples ==
    (variant = "pure" /\ probe.fn = "attempt") =>
        LET navs == probe.out.navigations
            thrown == probe.args.thrown
        IN  /\ \A n \in 1..Len(navs) :
                  /\ navs[n].soft.ok = (thrown[n] = "")
                  /\ ~navs[n].soft.ok => navs[n].soft.error = thrown[n]
            /\ probe.out.attempt.error \notin {"TimeoutError", "Error"}
            /\ (\E n \in 1..Len(navs) : ~navs[n].soft.ok) =>
                  Len(probe.out.polls) >= 1

(* C24: the entry of the trace for an attempt holds the profile name, the *)
(* artifact presence flags of the profile, and every soft failure of a     *)
(* navigation the attempt made.                                            *)
C24_NavigationFailuresInTrace ==
    (variant = "pure" /\ probe.fn = "attempt") =>
        LET navs == probe.out.navigations
            entry == probe.out.entry
        IN  /\ entry.profile = probe.args.profile
            /\ entry.source = ProfileStore.flags[probe.args.profile]
            /\ \A n \in 1..Len(navs) :
                  ~navs[n].soft.ok => entry.error = navs[n].soft.error

(* the workspaces and the sessions of the harvest of request r *)
OfHarvest(S, r) == {w \in S : w[2] = r}

AnyStep == (\E k \in Runs : RunStep(k)) \/ (\E r \in Reqs : MpStep(r))

SpecLive == Spec /\ WF_vars(AnyStep)

(* one attempt per candidate of the finite list, in the list's order *)
OneAttemptPerCandidate ==
    variant = "multi" =>
        \A r \in DOMAIN mp :
            /\ mp[r].i <= Len(mp[r].cands)
            /\ Len(mp[r].tried) <= mp[r].i
            /\ \A a \in 1..Len(mp[r].tried) :
                  mp[r].tried[a].profile = mp[r].cands[a]
            /\ \A a, b \in 1..Len(mp[r].cands) :
                  a # b => mp[r].cands[a] # mp[r].cands[b]

(* no request is waiting for a response and no harvest is in flight *)
Quiescent ==
    /\ inflight = 0
    /\ \A c \in DOMAIN callers : callers[c].pc # "waiting"
    /\ \A r \in DOMAIN mp : mp[r].pc \in {"idle", "done"}

(* C26: every harvest terminates.  A harvest makes at most one attempt per *)
(* candidate of its finite list; and from some time on every GET /cookie   *)
(* request that was received has its response and the in-flight marker of  *)
(* the coalescing harvester is clear: a request cannot wait for ever, a    *)
(* marker cannot stay set for ever.                                        *)
C26_EveryHarvestTerminates == []OneAttemptPerCandidate /\ <>[]Quiescent

(* a harvest that tried every candidate has answered its request *)
C26_Witness ==
    /\ variant = "multi"
    /\ Quiescent
    /\ \E r \in DOMAIN mp :
          /\ mp[r].pc = "done"
          /\ Len(mp[r].cands) = 2
          /\ Len(mp[r].tried) = 2
          /\ mp[r].resp.status = 200

(* request r is at a candidate whose profile directory holds no cookie     *)
(* store, and the next step meets no failure of the file system or of the  *)
(* browser                                                                 *)
StorelessStep(r) ==
    /\ mp[r].pc \in {"clone", "launch", "run", "cleanup"}
    /\ ProfileStore.flags[mp[r].cands[mp[r].i]] =
          [hasCookies |-> FALSE, hasCookiesWal |-> FALSE,
           hasNetCookies |-> FALSE, hasNetCookiesWal |-> FALSE]
    /\ mp'[r] # mp[r]
    /\ faults' = faults

(* C27: a candidate without any cookie-store artifact is attempted like    *)
(* any other: its clone gives a workspace, a session is opened on it, the  *)
(* attempt returns with all presence flags false, the flags go into the    *)
(* trace, and the harvest goes on to the next candidate or answers with    *)
(* status 200; the missing store ends neither the attempt nor the harvest  *)
(* with an error.                                                          *)
C27_StorelessCandidateStillAttempted ==
    [][variant = "multi" =>
        \A r \in DOMAIN mp : StorelessStep(r) =>
            /\ mp[r].pc = "clone" =>
                  mp'[r].pc = "launch" /\ <<"req", r, mp[r].i>> \in ws'
            /\ mp[r].pc = "launch" =>
                  mp'[r].pc = "run" /\ <<"req", r, mp[r].i>> \in sessions'
            /\ mp[r].pc = "run" =>
                  /\ mp'[r].pc = "cleanup"
                  /\ ~mp'[r].att.source.hasCookies
                  /\ ~mp'[r].att.source.hasNetCookies
            /\ mp[r].pc = "cleanup" =>
                  /\ Len(mp'[r].tried) = Len(mp[r].tried) + 1
                  /\ ~mp'[r].tried[Len(mp'[r].tried)].source.hasCookies
                  /\ ~mp'[r].tried[Len(mp'[r].tried)].source.hasNetCookies
                  /\ \/ mp'[r].pc = "clone" /\ mp'[r].i = mp[r].i + 1
                     \/ mp'[r].pc = "done" /\ mp'[r].resp.status = 200]_vars

(* the session of a candidate without a cookie store is open *)
C27_Witness ==
    /\ variant = "multi"
    /\ \E r \in DOMAIN mp :
          /\ mp[r].pc = "run"
          /\ mp[r].cands[mp[r].i] = "Default"
          /\ ~ProfileStore.flags["Default"].hasCookies
          /\ ~ProfileStore.flags["Default"].hasNetCookies
          /\ <<"req", r, mp[r].i>> \in sessions

PolicyWords(version) ==
    IF version = "multi"
    THEN {"load", "domcontentloaded", "networkidle0", "networkidle2"}
    ELSE {"load", "domcontentloaded", "networkidle"}

DefaultPolicyWord(version) ==
    IF version = "coalescing" THEN "networkidle" ELSE "domcontentloaded"

(* C29: the navigation wait policy is always a member of the enumeration,  *)
(* written in lower case: a configured value that is in the enumeration    *)
(* when compared without regard to case gives that member, and an unset or *)
(* unrecognized value gives the default.                                   *)
C29_WaitPolicyInEnumeration ==
    (variant = "pure" /\ probe.fn = "WAIT_UNTIL") =>
        LET version == probe.args.version
            env == probe.args.env
        IN  /\ probe.out.word \in PolicyWords(version)
            /\ ~probe.out.caps
            /\ probe.out.word = IF env.word \in PolicyWords(version)
                                THEN env.word ELSE DefaultPolicyWord(version)

(* the header of the first n cookies of a sample: each cookie whose domain *)
(* contains google.com adds its pair at the end, after '; ' when a pair is *)
(* there already                                                           *)
RECURSIVE HeaderOfFirst(_, _)
HeaderOfFirst(sample, n) ==
    IF n = 0 THEN << >>
    ELSE LET sofar == HeaderOfFirst(sample, n - 1)
             c == sample[n]
         IN  IF c.domain \notin {".google.com", "ads.google.com"} THEN sofar
             ELSE (IF sofar = << >> THEN << >> ELSE sofar \o <<";", " ">>)
                  \o c.name \o <<"=">> \o c.value

(* C30: the cookie header is the name=value pairs of exactly the sampled   *)
(* cookies whose domain contains google.com, in the order of the sample,   *)
(* joined by '; '; it is the empty string when no cookie qualifies.        *)
C30_CookieHeaderOfGoogleCookies ==
    (variant = "pure" /\ probe.fn = "cookieHeaderFrom") =>
        /\ probe.out = HeaderOfFirst(probe.cookies, Len(probe.cookies))
        /\ (\A i \in 1..Len(probe.cookies) :
               probe.cookies[i].domain \notin {".google.com", "ads.google.com"})
              => probe.out = << >>

(* a cookie of another site stands between two cookies that qualify *)
C30_Witness ==
    /\ probe.fn = "cookieHeaderFrom"
    /\ Len(probe.cookies) = 3
    /\ probe.cookies[1].domain = "ads.google.com"
    /\ probe.cookies[2].domain = ".youtube.com"
    /\ probe.cookies[3].domain = ".google.com"
    /\ probe.out = <<"NID", "=", "a", ";", " ", "SID", "=">>

(* C31: with an access key configured, a request to /cookie or /seed whose *)
(* x-api-key header is absent or different is answered 401, its handler is *)
(* not entered, no harvest starts and the cache slot and the seed are left *)
(* as they were; a request with the right key, and every request when no   *)
(* key is configured, passes the gate.                                     *)
C31_KeyGate ==
    [][(variant = "pure" /\ probe.fn = "" /\ probe'.fn = "request") =>
          LET a == probe'.args
          IN  IF a.API_KEY # "" /\ a.key # a.API_KEY
              THEN /\ probe'.out.status = 401
                   /\ ~probe'.out.entered
                   /\ inflight' = inflight
                   /\ cache' = cache
                   /\ seed' = seed
              ELSE /\ probe'.out.status # 401
                   /\ probe'.out.entered]_vars

(* a key is configured and a POST /seed without x-api-key was turned away *)
C31_Witness ==
    /\ probe.fn = "request"
    /\ probe.args = [route |-> "POST /seed", API_KEY |-> "k1", key |-> ""]
    /\ probe.out.status = 401
    /\ seed = EmptyStr
    /\ inflight = 0

(* run k settles in this step *)
Settles(k) == raws[k].pc = "cleanup" /\ raws'[k].pc = "settled"

(* C32: a harvest that was in flight when a seed write or clear completed  *)
(* (no GET /cookie came after the invalidation, so every run still active  *)
(* started before it) does not write the cache slot when it settles; and   *)
(* the slot is written only by a settling harvest and by an invalidation.  *)
C32_NoStaleRepopulation ==
    [][variant = "coalescing" =>
          /\ \A k \in Runs : (seedOp.unread /\ Settles(k)) => cache' = cache
          /\ cache' # cache =>
                \/ \E k \in Runs : Settles(k)
                \/ seedOp.pc = "writing" /\ seedOp'.status = 200]_vars

(* the marker is null when no run is active and names the one active run   *)
(* otherwise                                                               *)
MarkerNamesTheActiveRun ==
    IF inflight = 0 THEN ActiveRuns = {} ELSE ActiveRuns = {inflight}

(* C33: in the coalescing harvester the in-flight marker is non-null       *)
(* exactly while one run of getCookiesAndHeaderRaw is active.  It changes  *)
(* only from null to a run that starts in that step, and from that run to  *)
(* null in the step the run settles, fulfilled or rejected; it is never    *)
(* overwritten while non-null; and after a run has failed the marker is    *)
(* null, so that the next call that is not answered from the cache starts  *)
(* a new run.                                                              *)
C33_MarkerTracksActiveRun ==
    [][variant = "coalescing" =>
          /\ MarkerNamesTheActiveRun
          /\ MarkerNamesTheActiveRun'
          /\ inflight' # inflight =>
                \/ /\ inflight = 0
                   /\ raws[inflight'].pc = "unused"
                   /\ raws'[inflight'].pc = "clone"
                \/ /\ inflight' = 0
                   /\ raws[inflight].pc \notin {"unused", "settled"}
                   /\ raws'[inflight].pc = "settled"
          /\ \A k \in Runs :
                (raws[k].pc \notin {"unused", "settled"} /\ raws'[k].pc = "settled")
                    => inflight = k /\ inflight' = 0
          /\ \A c \in Reqs :
                (Calls(c) /\ inflight = 0 /\ callers'[c].pc = "waiting") =>
                    /\ inflight' # 0
                    /\ callers'[c].run = inflight'
                    /\ callers'[c].started]_vars

(* a run failed, and a later call has started a new run *)
C33_Witness ==
    /\ variant = "coalescing"
    /\ raws[1].pc = "settled"
    /\ raws[1].threw
    /\ inflight = 2
    /\ raws[2].pc = "clone"

(* C34: a response is marked fromCache only in the step its call is made,  *)
(* only when that call is not forced (and, in the multi-profile version,   *)
(* names no profile), the slot's cookie header is non-empty and the clock  *)
(* is strictly before the slot's expiry; the response carries the cookie   *)
(* header the slot holds, which is what the most recent write stored, and  *)
(* the slot is left as it is; a call made at clock = expiry or later is    *)
(* not served from the slot.                                               *)
C34_FromCacheOnlyWhenFresh ==
    [][/\ variant = "coalescing" =>
            \A c \in Reqs :
               /\ (callers'[c].resp.fromCache /\ ~callers[c].resp.fromCache) =>
                     /\ Calls(c)
                     /\ Len(cache.header) > 0
                     /\ now < cache.expires
                     /\ callers'[c].resp.header = cache.header
                     /\ cache' = cache
                     /\ \A o \in QueryOptions : ~GetCookie(c, TRUE, o.useSeed, o.clear)
               /\ (Calls(c) /\ now >= cache.expires) => ~callers'[c].resp.fromCache
       /\ variant = "multi" =>
            \A r \in Reqs :
               /\ (mp'[r].resp.fromCache /\ ~mp[r].resp.fromCache) =>
                     /\ MpCalls(r)
                     /\ Len(cache.cookieHeader) > 0
                     /\ now < cache.expires
                     /\ mp'[r].resp.cookieHeader = cache.cookieHeader
                     /\ cache' = cache
                     /\ mp'[r].profile = ""
                     /\ \A profile \in {"", ExtraProfile} : ~MpGet(r, TRUE, profile)
               /\ (MpCalls(r) /\ now >= cache.expires) => ~mp'[r].resp.fromCache]_vars

(* one call was served from the slot before its expiry, and a call made at *)
(* clock = expiry, the slot still populated, had to harvest                *)
C34_Witness ==
    /\ variant = "coalescing"
    /\ now = cache.expires
    /\ Len(cache.header) > 0
    /\ callers[1].pc = "done"
    /\ callers[1].resp.fromCache
    /\ callers[1].resp.header = cache.header
    /\ callers[2].pc = "waiting"
    /\ callers[2].started

(* request c attaches to the run in flight in this step *)
Attaches(c) == Calls(c) /\ callers'[c].pc = "waiting" /\ ~callers'[c].started

(* C35: a caller that attaches to the harvest in flight changes nothing of *)
(* that harvest: the step is the same whatever seed and clear options the  *)
(* caller gives, the run keeps the options of the caller that started it   *)
(* until it uses them, and when the run fulfils, the attached caller gets  *)
(* the header and cookies of that run, which are also what is written to   *)
(* the cache slot.                                                         *)
C35_AttachedCallerOptionsIgnored ==
    [][variant = "coalescing" =>
          /\ \A c \in Reqs : Attaches(c) =>
                /\ raws' = raws
                /\ cache' = cache
                /\ inflight' = inflight
                /\ callers'[c].run = inflight
                /\ \A o \in QueryOptions :
                      \E force \in BOOLEAN : GetCookie(c, force, o.useSeed, o.clear)
          /\ \A k \in Runs : raws[k].pc \in {"clone", "launch"} =>
                /\ raws'[k].useSeed = raws[k].useSeed
                /\ raws'[k].clear = raws[k].clear
          /\ \A k \in Runs : (Settles(k) /\ ~raws[k].threw) =>
                /\ cache'.cookies = raws[k].cookies
                /\ \A c \in Reqs : (callers[c].pc = "waiting" /\ callers[c].run = k) =>
                      /\ callers'[c].resp.cookies = raws[k].cookies
                      /\ callers'[c].resp.header = cache'.header
                      /\ ~callers'[c].resp.fromCache]_vars

(* a caller attached to the run another caller started, and both were      *)
(* answered the result of that run                                         *)
C35_Witness ==
    /\ variant = "coalescing"
    /\ \E c, d \in Reqs :
          /\ callers[c].started /\ ~callers[d].started
          /\ callers[d].run = callers[c].run
          /\ callers[c].pc = "done" /\ callers[d].pc = "done"
          /\ callers[c].resp.status = 200
          /\ Len(callers[c].resp.header) > 0
          /\ callers[d].resp = callers[c].resp

(* the harvest of request q, made for an explicit profile, has returned    *)
(* and the slot holds what it returned                                     *)
SlotHoldsExplicit(q) ==
    /\ mp[q].pc = "done"
    /\ mp[q].profile # ""
    /\ mp[q].resp.status = 200
    /\ ~mp[q].resp.fromCache
    /\ cache.cookieHeader = mp[q].resp.cookieHeader
    /\ cache.authHeader = mp[q].resp.authHeader

(* C36: a request that names a profile is never answered from the cache,   *)
(* the result of its harvest replaces the slot, and a later request        *)
(* without profile and without force made before the expiry is answered    *)
(* from the cache with the result harvested for the named profile.         *)
C36_ExplicitProfileResultServed ==
    [][variant = "multi" =>
          \A r \in Reqs :
              /\ (MpCalls(r) /\ mp'[r].profile # "") =>
                    /\ mp'[r].pc = "clone"
                    /\ cache' = cache
              /\ (mp[r].pc = "cleanup" /\ mp'[r].pc = "done" /\ mp[r].profile # "") =>
                    cache' = MpCacheEntry(mp'[r].resp.cookieHeader, cache'.cookies,
                                          mp'[r].resp.authHeader, now)
              /\ (/\ mp[r].pc = "idle"
                  /\ now < cache.expires
                  /\ \E q \in Reqs : SlotHoldsExplicit(q)
                  /\ MpGet(r, FALSE, "")) =>
                    /\ mp'[r].pc = "done"
                    /\ mp'[r].resp.fromCache
                    /\ mp'[r].resp.cookieHeader = cache.cookieHeader]_vars

(* request r was answered with a result fetchFreshAuth returned *)
Returned(r) == mp[r].pc = "done" /\ mp[r].resp.status = 200 /\ ~mp[r].resp.fromCache

(* C37: in every result fetchFreshAuth returns, the trace has one entry    *)
(* per attempted candidate, in the order of the attempts; when the last    *)
(* entry is a success, no entry before it is one and pickedProfile is the  *)
(* profile of that entry; otherwise the result is degraded: the trace has  *)
(* one entry per candidate, none a success, and pickedProfile is the last  *)
(* candidate of the list.                                                  *)
C37_TriedTraceShape ==
    \A r \in DOMAIN mp : (variant = "multi" /\ Returned(r)) =>
        LET res == mp[r].resp
            cands == mp[r].cands
            n == Len(res.tried)
        IN  /\ n = mp[r].i
            /\ n \in 1..Len(cands)
            /\ \A j \in 1..n : res.tried[j].profile = cands[j]
            /\ IF res.tried[n].ok
               THEN /\ \A j \in 1..(n - 1) : ~res.tried[j].ok
                    /\ res.pickedProfile = res.tried[n].profile
               ELSE /\ n = Len(cands)
                    /\ \A j \in 1..n : ~res.tried[j].ok
                    /\ res.pickedProfile = cands[Len(cands)]
                    /\ res.cookieHeader = EmptyStr

(* a degraded result over several candidates names the last of them *)
C37_Witness ==
    \E r \in DOMAIN mp :
        /\ variant = "multi"
        /\ Returned(r)
        /\ Len(mp[r].cands) >= 2
        /\ Len(mp[r].resp.tried) = Len(mp[r].cands)
        /\ ~mp[r].resp.tried[Len(mp[r].cands)].ok
        /\ mp[r].resp.pickedProfile = mp[r].cands[Len(mp[r].cands)]
        /\ mp[r].resp.pickedProfile # mp[r].cands[1]

(* what the seed request in progress writes to the seed file *)
SeedToWrite == IF seedOp.kind = "post" THEN seedOp.body ELSE EmptyStr

(* C38: a POST /seed without a usable cookieHeader is answered 400 at once *)
(* and changes neither the seed nor the cache slot, while one with a       *)
(* header goes on to the write; the slot is cleared only in a step in      *)
(* which the seed was written, so a POST or DELETE whose write failed      *)
(* leaves the slot, and the seed, as they were.                            *)
C38_SeedWrittenBeforeSlotCleared ==
    [][variant = "coalescing" =>
          /\ \A body \in SeedBodies : (seedOp.pc = "idle" /\ SeedPost(body)) =>
                IF Len(body) = 0
                THEN /\ seedOp'.status = 400 /\ seedOp'.pc = "idle"
                     /\ UNCHANGED <<seed, cache>>
                ELSE /\ seedOp'.pc = "writing" /\ seedOp'.status = 0
                     /\ UNCHANGED <<seed, cache>>
          /\ (seedOp.pc = "idle" /\ seedOp'.pc = "writing") => UNCHANGED <<seed, cache>>
          /\ SeedEnds =>
                /\ (cache' # cache \/ seedOp'.status = 200) =>
                      (seed' = SeedToWrite /\ faults' = faults)
                /\ faults' # faults =>
                      (UNCHANGED <<seed, cache>> /\ seedOp'.status \in {0, 500})
          /\ (cache'.expires = 0 /\ cache.expires # 0) =>
                (SeedEnds /\ seed' = SeedToWrite)]_vars

(* the write of a posted seed failed while the slot held a harvest: the    *)
(* request was answered 500, the slot still holds the harvest and the seed *)
(* is not the posted one                                                   *)
C38_Witness ==
    /\ variant = "coalescing"
    /\ seedOp.pc = "idle" /\ seedOp.status = 500
    /\ faults > 0
    /\ Len(cache.header) > 0 /\ cache.expires > 0
    /\ seed = EmptyStr

(* the position of the first "=" of a segment that has one *)
FirstEq(seg) ==
    CHOOSE i \in 1..Len(seg) : seg[i] = "=" /\ \A j \in 1..(i - 1) : seg[j] # "="

HasEq(seg) == \E i \in 1..Len(seg) : seg[i] = "="

(* the segment has a "=" and something else than blanks before the first *)
Kept(seg) == HasEq(seg) /\ \E j \in 1..(FirstEq(seg) - 1) : seg[j] # " "

NoBlankEnds(str) == Len(str) > 0 => (str[1] # " " /\ str[Len(str)] # " ")

(* a name=value pair with a non-empty name, name and value trimmed *)
TrimmedPair(seg) ==
    /\ HasEq(seg)
    /\ FirstEq(seg) > 1
    /\ NoBlankEnds(SubSeq(seg, 1, FirstEq(seg) - 1))
    /\ NoBlankEnds(SubSeq(seg, FirstEq(seg) + 1, Len(seg)))

(* C39: parseCookieHeader returns one cookie per segment that has a "="    *)
(* and a non-blank name, in the order of the segments, the name being what *)
(* precedes the first "=" and the value what follows it, both trimmed; and *)
(* for a header of trimmed name=value pairs joined by "; " the header      *)
(* built from the parsed cookies is the header itself, pair by pair,       *)
(* duplicates included.                                                    *)
C39_ParseAndRoundTrip ==
    (variant = "pure" /\ probe.fn = "parseCookieHeader") =>
        LET segs == probe.args.segs
            seps == probe.args.seps
            kept == SelectSeq(segs, Kept)
            out == probe.out
        IN  /\ Len(out) = Len(kept)
            /\ \A k \in 1..Len(out) :
                  LET i == FirstEq(kept[k])
                  IN  /\ out[k].name = Trim(SubSeq(kept[k], 1, i - 1))
                      /\ out[k].value = Trim(SubSeq(kept[k], i + 1, Len(kept[k])))
                      /\ Len(out[k].name) > 0
                      /\ \A j \in 1..Len(out[k].name) : out[k].name[j] # "="
            /\ (/\ \A k \in 1..Len(segs) : TrimmedPair(segs[k])
                /\ \A k \in 1..Len(seps) : seps[k] = <<";", " ">>) =>
                  /\ probe.out2 = probe.args.h
                  /\ Len(out) = Len(segs)
                  /\ \A k \in 1..Len(segs) :
                        out[k].name \o <<"=">> \o out[k].value = segs[k]

(* a header of three pairs, the first repeated and one with "=" in its     *)
(* value, was parsed and rebuilt unchanged                                 *)
C39_Witness ==
    /\ variant = "pure"
    /\ probe.fn = "parseCookieHeader"
    /\ probe.args.segs = <<<<"a", "=", "b">>, <<"a", "=", "b">>, <<"a", "=", "b", "=", "c">>>>
    /\ probe.args.seps = <<<<";", " ">>, <<";", " ">>>>
    /\ Len(probe.out) = 3
    /\ probe.out[3].value = <<"b", "=", "c">>
    /\ probe.out2 = probe.args.h

=============================================================================
